---- MODULE Spec2Model ----
(***************************************************************************)
(* The risk and admission-control engine of src/risk_manager.py            *)
(* (class RiskManager): pre_trade_checks ("evaluate"), post_trade_update   *)
(* ("record_fill"), push_price, the clock, the state file with __init__    *)
(* loading it, and a second RiskManager over the same state file.  The     *)
(* field current_cooldown, which pre_trade_checks writes and nothing       *)
(* reads, is left out.                                                     *)
(*                                                                         *)
(* Numbers.  The program computes in binary floating point; the model      *)
(* computes the same expressions in exact rational arithmetic.  A rational *)
(* is a pair <<n, d>> with d > 0 in lowest terms.  Money is in USDT,       *)
(* prices are integers in cents (1/100 USDT), sizes are integers in units  *)
(* of 0.0001, percentages of a decision are integers in basis points and   *)
(* confidence is an integer in hundredths.                                 *)
(***************************************************************************)
EXTENDS Integers, Sequences, FiniteSets, TLC

VARIABLES
    cfg,               \* RiskManager.cfg, the RiskConfig in force
    state,             \* RiskManager.state, the RiskState
    disk,              \* contents of the state file (<<>> when there is none)
    peer,              \* the state of a second RiskManager on the same file
    price_history,     \* RiskManager.price_history
    pushed,            \* the prices push_price was called with, when they are followed
    now,               \* the clock read by _now_ts()
    nfills,            \* the number of post_trade_update calls so far
    decision,          \* the decision the signal source proposes
    market,            \* the market snapshot: symbol -> row
    balance,           \* the available USDT of the account balance
    account_equity,    \* what the equity accessor answers (0: none, or it fails)
    equity_provider,   \* the accessor: "returns" its answer, "raises", or "unset"
    ret                \* the last call and its result

engine == <<cfg, state, disk, peer, price_history, pushed, now, nfills>>
inputs == <<decision, market, balance, account_equity, equity_provider>>
vars == <<engine, inputs, ret>>

-----------------------------------------------------------------------------
(* Bounds of the model *)

StartTs == 1700000000
MaxTicks == 1
MaxFills == 3
MaxHist == 2
GateFills == 1
PersistFills == 2
MaxDays == 1

-----------------------------------------------------------------------------
(* Exact rationals *)

Abs(x) == IF x < 0 THEN -x ELSE x

RECURSIVE GCD(_, _)
GCD(a, b) == IF b = 0 THEN a ELSE GCD(b, a % b)

Rat(n, d) ==
    LET g == GCD(Abs(n), Abs(d))
        s == IF d < 0 THEN -1 ELSE 1
    IN  <<s * (n \div g), s * (d \div g)>>

RInt(n) == <<n, 1>>
RMul(x, y) ==
    LET a == Rat(x[1], y[2])
        b == Rat(y[1], x[2])
    IN  <<a[1] * b[1], a[2] * b[2]>>
RDiv(x, y) == RMul(x, Rat(y[2], y[1]))
RAdd(x, y) ==
    LET g == GCD(x[2], y[2])
    IN  Rat(x[1] * (y[2] \div g) + y[1] * (x[2] \div g), (x[2] \div g) * y[2])
RNeg(x) == <<-x[1], x[2]>>
RSub(x, y) == RAdd(x, RNeg(y))
\* x < y, compared by integer parts and then by the reciprocals of the
\* fractional parts, so that no product leaves the integer range
RECURSIVE RLt(_, _)
RLt(x, y) ==
    LET qx == x[1] \div x[2]
        qy == y[1] \div y[2]
        rx == x[1] % x[2]
        ry == y[1] % y[2]
    IN  IF qx # qy THEN qx < qy
        ELSE IF ry = 0 THEN FALSE
        ELSE IF rx = 0 THEN TRUE
        ELSE RLt(<<y[2], ry>>, <<x[2], rx>>)
RLe(x, y) == ~RLt(y, x)
RMin(x, y) == IF RLt(y, x) THEN y ELSE x
RMax(x, y) == IF RLt(x, y) THEN y ELSE x
RAbs(x) == <<Abs(x[1]), x[2]>>
RFloor(x) == x[1] \div x[2]
RZero == <<0, 1>>

\* 1e-9, and max(x, 1e-9)
Eps == <<1, 1000000000>>
RMaxEps(x) ==
    IF x[1] <= 0 THEN Eps
    ELSE IF x[2] <= Eps[2] THEN x
    ELSE RMax(x, Eps)

-----------------------------------------------------------------------------
(* Options, symbols and units *)

None == <<>>
Some(v) == <<v>>
Get(o) == o[1]

Symbols == {"BTC-USDT", "ETH-USDT"}

\* a price in cents as USDT, a size in units of 0.0001 as a quantity
Px(c) == Rat(c, 100)
Qty(u) == Rat(u, 10000)
Bps(b) == Rat(b, 10000)

-----------------------------------------------------------------------------
(* Configuration *)

\* SymbolRule(): price_tick in cents, lot_size_min and lot_size_step in 0.0001
SymbolRule == [price_tick |-> 10, lot_size_min |-> 1, lot_size_step |-> 1]

RiskConfig ==
    [ daily_loss_limit_pct    |-> Rat(3, 100),
      max_open_risk_pct       |-> Rat(3, 100),
      balance_reserve_pct     |-> Rat(10, 100),
      max_consecutive_losses  |-> 3,
      cooldown_global_sec     |-> 900,
      max_symbol_exposure_pct |-> Rat(30, 100),
      symbol_cooldown_sec     |-> 180,
      risk_per_trade_pct      |-> Rat(5, 1000),
      risk_min_pct            |-> Rat(2, 1000),
      risk_max_pct            |-> Rat(15, 1000),
      max_trade_ratio         |-> Rat(30, 100),
      volatility_low_bps      |-> 30,
      volatility_high_bps     |-> 100,
      deviation_guard_bps     |-> 30,
      atr_lookback            |-> 14,
      atr_floor_bps           |-> 25,
      atr_mult_stop           |-> 2,
      fee_rate_bps            |-> 8,
      symbol_rules            |-> [s \in {} |-> SymbolRule] ]

\* the rules the trading loop passes: RiskConfig(symbol_rules=SYMBOL_RULES)
SYMBOL_RULES ==
    [s \in Symbols |->
        IF s = "BTC-USDT"
        THEN [price_tick |-> 10, lot_size_min |-> 1, lot_size_step |-> 1]
        ELSE [price_tick |-> 1, lot_size_min |-> 10, lot_size_step |-> 10]]

ProductionConfig == [RiskConfig EXCEPT !.symbol_rules = SYMBOL_RULES]

\* create_test_config(): short fixed cooldowns and coarser lots
create_test_config ==
    [RiskConfig EXCEPT
        !.cooldown_global_sec = 5,
        !.symbol_cooldown_sec = 5,
        !.symbol_rules =
            [s \in Symbols |->
                IF s = "BTC-USDT"
                THEN [price_tick |-> 10, lot_size_min |-> 10, lot_size_step |-> 10]
                ELSE [price_tick |-> 1, lot_size_min |-> 100, lot_size_step |-> 100]]]

Configs == {ProductionConfig, create_test_config}

_get_rule(c, symbol) ==
    IF symbol \in DOMAIN c.symbol_rules THEN c.symbol_rules[symbol] ELSE SymbolRule

-----------------------------------------------------------------------------
(* Helpers of the module *)

\* math.floor(x / step) * step, on rationals
_floor_to_step(x, step) ==
    IF RLe(step, RZero) THEN x ELSE RMul(RInt(RFloor(RDiv(x, step))), step)

\* the size cut to the unit of 0.0001 only, the lot step ignored
_align_size_unit_only(size, rule) ==
    IF RLe(size, RZero) THEN 0 ELSE RFloor(RMul(size, RInt(10000)))

\* the size raised to the next multiple of the lot step
_align_size_ceiling(size, rule) ==
    IF RLe(size, RZero) THEN 0
    ELSE LET floored == RFloor(RMul(_floor_to_step(size, Qty(rule.lot_size_step)), RInt(10000)))
         IN  IF RLt(Qty(floored), size) THEN floored + rule.lot_size_step ELSE floored


\* size and the result in units of 0.0001 (a rational and an integer)
_align_size(size, rule) ==
    IF RLe(size, RZero) THEN 0
    ELSE RFloor(RMul(_floor_to_step(size, Qty(rule.lot_size_step)), RInt(10000)))

\* price and the result in cents
_align_price(price, rule) ==
    RFloor(RMul(_floor_to_step(Px(price), Px(rule.price_tick)), RInt(100)))

\* the sum of a sequence of integers
RECURSIVE Sum(_)
Sum(seq) == IF seq = <<>> THEN 0 ELSE Head(seq) + Sum(Tail(seq))

LastN(seq, n) ==
    IF Len(seq) <= n THEN seq ELSE SubSeq(seq, Len(seq) - n + 1, Len(seq))

MaxOf(S) == CHOOSE x \in S : \A y \in S : y <= x

-----------------------------------------------------------------------------
(* RiskState *)

\* date.today(): the calendar day of the time t, as the number of the day
Day(t) == t \div 86400

\* _is_new_day(stored_date)
_is_new_day(stored_date, today) == stored_date # today

\* _new_state() with a default equity of 10000
_new_state_small_default(equity, today) ==
    [ date               |-> today,
      day_open_equity    |-> IF equity <= 0 THEN 10000 ELSE equity,
      realized_pnl_today |-> 0,
      consecutive_losses |-> 0,
      consecutive_wins   |-> 0,
      last_trade_ts      |-> [s \in {} |-> 0],
      symbol_exposure    |-> [s \in {} |-> RZero],
      open_positions     |-> [s \in {} |-> 0] ]

\* _new_state(): seeded from the equity accessor, or the default 100000
_new_state(equity, today) ==
    [ date               |-> today,
      day_open_equity    |-> IF equity <= 0 THEN 100000 ELSE equity,
      realized_pnl_today |-> 0,
      consecutive_losses |-> 0,
      consecutive_wins   |-> 0,
      last_trade_ts      |-> [s \in {} |-> 0],
      symbol_exposure    |-> [s \in {} |-> RZero],
      open_positions     |-> [s \in {} |-> 0] ]

\* _estimate_equity() that takes the default equity when the accessor fails
_estimate_equity_default(provider, answer) ==
    IF provider = "returns" THEN answer ELSE 100000

\* _estimate_equity(): float(equity_provider()) when the accessor is callable
\* and returns answer; 0.0 when it is not set or raises
_estimate_equity(provider, answer) ==
    IF provider = "returns" THEN answer ELSE 0

\* The state file.  json.dump(asdict(state)) writes every field of the state
\* and json.load gives them back: the keys of the dicts are strings and the
\* values numbers, strings and dicts of these, which JSON keeps.  A file that
\* parses is modelled by Some(st), st the RiskState it encodes; a file that
\* json.load or RiskState(**d) refuses (truncated, hand-edited) by Corrupt.
Corrupt == Some([text |-> "not a RiskState"])

\* _save_state() that never writes
_save_state_skipped(st, file, outcome) == [disk |-> file, raised |-> ""]

\* _save_state() in a try/except that swallows the error
_save_state_swallowed(st, file, outcome) ==
    [ disk   |-> IF outcome = "ok" THEN Some(st)
                 ELSE IF outcome = "open fails" THEN file ELSE Corrupt,
      raised |-> "" ]

\* _save_state() of the state st over the file: open(path, "w") truncates the
\* file and json.dump writes it; neither is in a try, so an OSError leaves
\* the method.  outcome "open fails": the file is as it was; "write fails":
\* the file is truncated or partly written.
_save_state(st, file, outcome) ==
    IF outcome = "ok" THEN [disk |-> Some(st), raised |-> ""]
    ELSE IF outcome = "open fails" THEN [disk |-> file, raised |-> "OSError"]
    ELSE [disk |-> Corrupt, raised |-> "OSError"]

\* _load_state() on the state file, on the day today, equity what
\* _estimate_equity() answers during __init__: the state the file holds, or
\* _new_state() when there is no file or it does not parse; then the reset
\* of a new day (consecutive_wins is kept, nothing is saved)
_load_state(file, today, equity) ==
    LET st == IF file = None \/ file = Corrupt THEN _new_state(equity, today)
              ELSE Get(file)
    IN  IF _is_new_day(st.date, today)
        THEN [st EXCEPT !.day_open_equity    = IF equity > 0 THEN equity ELSE @,
                        !.date               = today,
                        !.realized_pnl_today = 0,
                        !.consecutive_losses = 0]
        ELSE st

-----------------------------------------------------------------------------
(* Volatility estimator *)

\* the proxy without its floor
_atr_proxy_bps_no_floor(c, hist, symbol) ==
    LET N     == IF c.atr_lookback < 3 THEN 3 ELSE c.atr_lookback
        seq   == IF symbol \in DOMAIN hist THEN hist[symbol] ELSE <<>>
        diffs == [i \in 1..(Len(seq) - 1) |-> Abs(seq[i + 1] - seq[i])]
        avg   == RDiv(Px(Sum(LastN(diffs, N))), RInt(IF N < Len(diffs) THEN N ELSE Len(diffs)))
    IN  IF Len(seq) < 2 THEN RZero
        ELSE RMul(RDiv(avg, RMaxEps(Px(seq[Len(seq)]))), RInt(10000))

\* _atr_proxy_bps(symbol): the mean of the last N absolute differences of
\* successive prices (N = max(3, atr_lookback)) over the latest price, in
\* basis points, floored at atr_floor_bps
_atr_proxy_bps(c, hist, symbol) ==
    LET N     == IF c.atr_lookback < 3 THEN 3 ELSE c.atr_lookback
        seq   == IF symbol \in DOMAIN hist THEN hist[symbol] ELSE <<>>
        diffs == [i \in 1..(Len(seq) - 1) |-> Abs(seq[i + 1] - seq[i])]
        used  == LastN(diffs, N)
        avg   == RDiv(Px(Sum(used)), RInt(IF N < Len(diffs) THEN N ELSE Len(diffs)))
        px    == Px(seq[Len(seq)])
        bps   == RMul(RDiv(avg, RMaxEps(px)), RInt(10000))
    IN  IF Len(seq) < 2 THEN RInt(c.atr_floor_bps)
        ELSE RMax(RInt(c.atr_floor_bps), bps)

-----------------------------------------------------------------------------
(* Cooldown model *)

\* the longest cooldown adaptive_cooldown gives: min(cooldown_time, 3600)
CooldownCeiling == 3600


\* the cooldown without its ceiling of one hour
adaptive_cooldown_no_ceiling(consecutive_losses, avg_drawdown, volatility, ai_confidence) ==
    LET loss_factor == RAdd(RInt(1), RMul(RInt(consecutive_losses), Rat(3, 10)))
        dd_factor   == RAdd(RInt(1), RMul(RDiv(avg_drawdown, Rat(5, 100)), Rat(1, 2)))
        vola_factor == RAdd(RInt(1), RMul(RDiv(volatility, Rat(2, 100)), Rat(1, 2)))
        conf_factor == IF ai_confidence < 50 THEN RInt(2) ELSE RInt(1)
    IN  RFloor(RMax(RInt(180), RMul(RMul(RMul(RMul(RInt(300), loss_factor), dd_factor),
                                         vola_factor), conf_factor)))

\* adaptive_cooldown: avg_drawdown and volatility are ratios, ai_confidence
\* is in hundredths; the result is in whole seconds (int() truncates)
adaptive_cooldown(consecutive_losses, avg_drawdown, volatility, ai_confidence) ==
    LET base_time     == RInt(300)
        loss_factor   == RAdd(RInt(1), RMul(RInt(consecutive_losses), Rat(3, 10)))
        dd_factor     == RAdd(RInt(1), RMul(RDiv(avg_drawdown, Rat(5, 100)), Rat(1, 2)))
        vola_factor   == RAdd(RInt(1), RMul(RDiv(volatility, Rat(2, 100)), Rat(1, 2)))
        conf_factor   == IF ai_confidence < 50 THEN RInt(2) ELSE RInt(1)
        cooldown_time == RMul(RMul(RMul(RMul(base_time, loss_factor), dd_factor),
                                   vola_factor), conf_factor)
    IN  RFloor(RMax(RInt(180), RMin(cooldown_time, RInt(3600))))

\* the early unlock granted whatever the decision
can_unlock_always(volatility, ai_confidence) == TRUE

\* the early unlock on confidence alone
can_unlock_confidence_only(volatility, ai_confidence) == ai_confidence >= 80

\* the early unlock with volatility <= 1%
can_unlock_inclusive(volatility, ai_confidence) ==
    RLe(volatility, Rat(1, 100)) /\ ai_confidence >= 80

\* the early-unlock condition: volatility < 0.01 and ai_confidence >= 0.80
can_unlock(volatility, ai_confidence) ==
    RLt(volatility, Rat(1, 100)) /\ ai_confidence >= 80

-----------------------------------------------------------------------------
(* Position sizer *)

\* the risk amount with the winning streak looked at before the losing one
calculate_dynamic_position_size_wins_first(c, base_risk_pct, ai_confidence, volatility_bps, consecutive_losses, consecutive_wins, equity) ==
    LET low        == c.volatility_low_bps
        high       == c.volatility_high_bps
        ratio      == RDiv(RSub(volatility_bps, RInt(low)),
                           RInt(IF high - low < 1 THEN 1 ELSE high - low))
        vola_scale == IF RLt(volatility_bps, RInt(low)) THEN Rat(12, 10)
                      ELSE IF RLt(RInt(high), volatility_bps) THEN Rat(6, 10)
                      ELSE RSub(Rat(12, 10), RMul(Rat(6, 10), ratio))
        state_scale == IF consecutive_wins >= 3 THEN Rat(13, 10)
                       ELSE IF consecutive_losses >= 2 THEN Rat(5, 10)
                       ELSE RInt(1)
        adjusted   == RMul(RMul(RMul(base_risk_pct, RAdd(Rat(1, 2), Rat(ai_confidence, 100))),
                                vola_scale), state_scale)
    IN  RMul(RMax(c.risk_min_pct, RMin(adjusted, c.risk_max_pct)), RInt(equity))

\* calculate_dynamic_position_size: the risk amount in USDT (a rational);
\* ai_confidence in hundredths, volatility_bps a rational
calculate_dynamic_position_size(c, base_risk_pct, ai_confidence, volatility_bps, consecutive_losses, consecutive_wins, equity) ==
    LET conf_scale == RAdd(Rat(1, 2), Rat(ai_confidence, 100))
        low        == c.volatility_low_bps
        high       == c.volatility_high_bps
        ratio      == RDiv(RSub(volatility_bps, RInt(low)),
                           RInt(IF high - low < 1 THEN 1 ELSE high - low))
        vola_scale == IF RLt(volatility_bps, RInt(low)) THEN Rat(12, 10)
                      ELSE IF RLt(RInt(high), volatility_bps) THEN Rat(6, 10)
                      ELSE RSub(Rat(12, 10), RMul(Rat(6, 10), ratio))
        state_scale == IF consecutive_losses >= 2 THEN Rat(5, 10)
                       ELSE IF consecutive_wins >= 3 THEN Rat(13, 10)
                       ELSE RInt(1)
        adjusted   == RMul(RMul(RMul(base_risk_pct, conf_scale), vola_scale), state_scale)
        clamped    == RMax(c.risk_min_pct, RMin(adjusted, c.risk_max_pct))
    IN  RMul(clamped, RInt(equity))

-----------------------------------------------------------------------------
(* pre_trade_checks: the gates *)

\* a rejection that counts as a loss
Reject_counted(reason, losses) ==
    [ raised |-> "", approved |-> FALSE, order |-> None, reason |-> reason,
      consecutive_losses |-> losses + 1 ]

\* a rejection: (False, None, reason)
Reject(reason, losses) ==
    [ raised |-> "", approved |-> FALSE, order |-> None, reason |-> reason,
      consecutive_losses |-> losses ]

\* an exception leaving pre_trade_checks
Raise(exception, losses) ==
    [ raised |-> exception, approved |-> FALSE, order |-> None, reason |-> "",
      consecutive_losses |-> losses ]

\* decision.get("confidence", 0.7), in hundredths
Confidence(d) == IF d.confidence = None THEN 70 ELSE Get(d.confidence)

\* the price of the row, a quote of 50000.00 standing in for one that is not
\* positive
RowPrice_stand_in(row) == IF row = None THEN 0 ELSE IF Get(row).price <= 0 THEN 5000000 ELSE Get(row).price

\* market.get(sym, {}).get("price"): 0 when the row or the price is missing
RowPrice(row) == IF row = None THEN 0 ELSE Get(row).price

\* the 3m extreme-signal veto: the reason, or "" when it does not veto
ExtremeSignal(row) ==
    LET ctx3m == IF row = None THEN None ELSE Get(row).tf3m
        rsi3m == IF Get(ctx3m).rsi14 = 0 THEN 50 ELSE Get(ctx3m).rsi14
        adx3m == Get(ctx3m).adx14
    IN  IF ctx3m = None THEN ""
        ELSE IF rsi3m > 90 THEN "3m RSI extreme overbought ({})"
        ELSE IF rsi3m < 10 THEN "3m RSI extreme oversold ({})"
        ELSE IF adx3m > 80 THEN "3m ADX extreme ({})"
        ELSE ""

\* dd = (equity - day_open_equity) / max(day_open_equity, 1e-9)
Drawdown(st, equity) ==
    RDiv(RInt(equity - st.day_open_equity), RMaxEps(RInt(st.day_open_equity)))

\* the kill switch with a strict comparison
KillSwitch_strict(c, st, equity) ==
    RLt(Drawdown(st, equity), RNeg(c.daily_loss_limit_pct))

\* the kill switch: dd <= -daily_loss_limit_pct
KillSwitch(c, st, equity) ==
    RLe(Drawdown(st, equity), RNeg(c.daily_loss_limit_pct))

\* volatility = _atr_proxy_bps(sym) / 1e4
Volatility(c, hist, sym) == RDiv(_atr_proxy_bps(c, hist, sym), RInt(10000))

\* the cooldown in force: the fixed one when cooldown_global_sec <= 60,
\* the adaptive one otherwise
CooldownTime(c, st, hist, d, equity) ==
    LET dynamic_cooldown ==
            adaptive_cooldown(st.consecutive_losses, RAbs(Drawdown(st, equity)),
                              Volatility(c, hist, d.symbol), Confidence(d))
    IN  IF c.cooldown_global_sec <= 60 THEN c.cooldown_global_sec
        ELSE dynamic_cooldown

\* the loss-streak cooldown that no lapse of time ends
InGlobalCooldown_until_reset(c, st, hist, t, d, equity) ==
    /\ st.consecutive_losses >= c.max_consecutive_losses
    /\ DOMAIN st.last_trade_ts # {}


\* the loss-streak cooldown is being served: the streak is at the threshold,
\* a trade is on record and less than the cooldown has elapsed since the
\* most recent one
InGlobalCooldown(c, st, hist, t, d, equity) ==
    /\ st.consecutive_losses >= c.max_consecutive_losses
    /\ DOMAIN st.last_trade_ts # {}
    /\ LET last_ts == MaxOf({st.last_trade_ts[s] : s \in DOMAIN st.last_trade_ts})
           elapsed == t - last_ts
       IN  elapsed < CooldownTime(c, st, hist, d, equity)

\* the per-symbol cooldown measured from the latest trade of any symbol
InSymbolCooldown_any_symbol(c, st, t, sym) ==
    LET last_ts == IF DOMAIN st.last_trade_ts = {} THEN 0
                   ELSE MaxOf({st.last_trade_ts[s] : s \in DOMAIN st.last_trade_ts})
    IN  t - last_ts < c.symbol_cooldown_sec

\* the per-symbol cooldown with the present time as the default timestamp
InSymbolCooldown_default_now(c, st, t, sym) ==
    LET last_ts == IF sym \in DOMAIN st.last_trade_ts THEN st.last_trade_ts[sym] ELSE t
    IN  t - last_ts < c.symbol_cooldown_sec

\* the per-symbol cooldown: last_trade_ts.get(sym, 0) is too recent
InSymbolCooldown(c, st, t, sym) ==
    LET last_ts == IF sym \in DOMAIN st.last_trade_ts THEN st.last_trade_ts[sym] ELSE 0
    IN  t - last_ts < c.symbol_cooldown_sec

\* the limit price carried on: aligned when the order is a limit order with
\* a limit price, else as given
LimitPx(c, d) ==
    IF d.order_type = "limit" /\ d.limit_price # None /\ Get(d.limit_price) # 0
    THEN Some(_align_price(Get(d.limit_price), _get_rule(c, d.symbol)))
    ELSE d.limit_price

\* the price-deviation guard: dev_bps > deviation_guard_bps
LimitDeviates(c, d, px) ==
    /\ d.order_type = "limit" /\ d.limit_price # None /\ Get(d.limit_price) # 0
    /\ LET limit_px == Get(LimitPx(c, d))
           dev_bps  == RMul(RDiv(RAbs(RSub(Px(limit_px), Px(px))), Px(px)), RInt(10000))
       IN  RLt(RInt(c.deviation_guard_bps), dev_bps)

\* the stop distance as a ratio: the decision's stop_loss_pct when it is
\* > 0, else atr_mult_stop * max(atr_floor_bps, ATR) * 1e-4
StopPct(c, hist, d) ==
    IF d.risk.stop_loss_pct > 0 THEN Bps(d.risk.stop_loss_pct)
    ELSE LET atr_bps == RMax(RInt(c.atr_floor_bps), _atr_proxy_bps(c, hist, d.symbol))
         IN  RMul(RMul(RInt(c.atr_mult_stop), atr_bps), Rat(1, 10000))

\* the quantity before alignment: min(size_raw, size hint, cap1, cap2, cap3),
\* not below 0
SizeBeforeAlign(c, st, hist, d, px, avail, equity) ==
    LET symbol_expo_cap == RMul(c.max_symbol_exposure_pct, RInt(equity))
        reserve_usdt    == RMul(c.balance_reserve_pct, RInt(equity))
        spendable_usdt  == RMax(RZero, RSub(RInt(avail), reserve_usdt))
        raw_conf        == Confidence(d)
        ai_confidence   == IF raw_conf < 0 THEN 0 ELSE IF raw_conf > 100 THEN 100 ELSE raw_conf
        R == calculate_dynamic_position_size(c, c.risk_per_trade_pct, ai_confidence,
                 _atr_proxy_bps(c, hist, d.symbol), st.consecutive_losses,
                 st.consecutive_wins, equity)
        stop_distance   == RMaxEps(RMul(StopPct(c, hist, d), Px(px)))
        size_raw0       == RDiv(R, stop_distance)
        cap1            == RDiv(symbol_expo_cap, Px(px))
        cap2            == RDiv(RMul(c.max_trade_ratio, RInt(equity)), Px(px))
        cap3            == RDiv(spendable_usdt,
                                RMul(Px(px), RAdd(RInt(1), Bps(c.fee_rate_bps))))
        size_raw        == IF d.size # None /\ Get(d.size) > 0
                           THEN RMin(size_raw0, Qty(Get(d.size)))
                           ELSE size_raw0
    IN  RMax(RZero, RMin(RMin(RMin(size_raw, cap1), cap2), cap3))

\* the order size, in units of 0.0001: aligned down to the lot step
OrderSize(c, st, hist, d, px, avail, equity) ==
    _align_size(SizeBeforeAlign(c, st, hist, d, px, avail, equity),
                _get_rule(c, d.symbol))

\* the reward/risk screen on the ratio of stop to target
RewardRisk_inverted(c, d) ==
    IF ~(d.risk.take_profit_pct > 0 /\ d.risk.stop_loss_pct > 0) THEN ""
    ELSE IF RLt(Rat(d.risk.stop_loss_pct, d.risk.take_profit_pct), Rat(15, 10))
    THEN "raw R too low ({} < 1.5)"
    ELSE ""

\* the reward/risk screen without the fee-adjusted check
RewardRisk_raw_only(c, d) ==
    IF ~(d.risk.take_profit_pct > 0 /\ d.risk.stop_loss_pct > 0) THEN ""
    ELSE IF RLt(Rat(d.risk.take_profit_pct, d.risk.stop_loss_pct), Rat(15, 10))
    THEN "raw R too low ({} < 1.5)"
    ELSE ""

\* the reward/risk screen giving one reason for both of its checks
RewardRisk_one_reason(c, d) ==
    LET tp_pct      == Bps(d.risk.take_profit_pct)
        sl_pct      == Bps(d.risk.stop_loss_pct)
        fee2        == RMul(RInt(2), Bps(c.fee_rate_bps))
        effective_r == RDiv(RMax(RZero, RSub(tp_pct, fee2)),
                            RMaxEps(RAdd(sl_pct, fee2)))
    IN  IF ~(d.risk.take_profit_pct > 0 /\ d.risk.stop_loss_pct > 0) THEN ""
        ELSE IF RLt(RDiv(tp_pct, sl_pct), Rat(15, 10)) \/ RLt(effective_r, RInt(1))
        THEN "raw R too low ({} < 1.5)"
        ELSE ""

\* the reward/risk screen: the reason, or "" when it passes
RewardRisk(c, d) ==
    LET tp_pct           == Bps(d.risk.take_profit_pct)
        sl_pct           == Bps(d.risk.stop_loss_pct)
        raw_r            == RDiv(tp_pct, sl_pct)
        fee              == Bps(c.fee_rate_bps)
        total_fee_impact == RMul(RInt(2), fee)
        effective_tp     == RMax(RZero, RSub(tp_pct, total_fee_impact))
        effective_sl     == RAdd(sl_pct, total_fee_impact)
        effective_r      == RDiv(effective_tp, RMaxEps(effective_sl))
    IN  IF ~(d.risk.take_profit_pct > 0 /\ d.risk.stop_loss_pct > 0) THEN ""
        ELSE IF RLt(raw_r, Rat(15, 10)) THEN "raw R too low ({} < 1.5)"
        ELSE IF RLt(effective_r, RInt(1)) THEN "effective R after fees ({} < 1.0)"
        ELSE ""

\* the sum of the function f over the finite set S
RECURSIVE RSum(_, _)
RSum(S, f) ==
    IF S = {} THEN RZero
    ELSE LET x == CHOOSE y \in S : TRUE
         IN  RAdd(f[x], RSum(S \ {x}, f))

\* the open risk taken as the risk of the new trade alone
_estimate_open_risk_after_new_only(c, st, hist, symbol, size, px, stop_pct) ==
    RMul(RMul(Qty(size), Px(px)), stop_pct)


\* _estimate_open_risk_after: this trade's risk plus the estimated risk of
\* the open positions of the other symbols, in USDT
_estimate_open_risk_after(c, st, hist, symbol, size, px, stop_pct) ==
    LET new_risk == RMul(RMul(Qty(size), Px(px)), stop_pct)
        others   == {s \in DOMAIN st.open_positions :
                        /\ s # symbol
                        /\ Abs(st.open_positions[s].qty) > 0
                        /\ RLt(RZero, st.open_positions[s].avg_price)}
        risk     == [s \in others |->
                        LET pos          == st.open_positions[s]
                            pos_stop_pct == RMul(RMul(_atr_proxy_bps(c, hist, s),
                                                RInt(c.atr_mult_stop)), Rat(1, 10000))
                        IN  RMul(RMul(Qty(Abs(pos.qty)), pos.avg_price), pos_stop_pct)]
    IN  RAdd(new_risk, RSum(others, risk))

\* the open-risk cap: open_risk_after > max_open_risk_pct * equity
OpenRiskExceeds(c, st, hist, d, size, px, equity) ==
    RLt(RMul(c.max_open_risk_pct, RInt(equity)),
        _estimate_open_risk_after(c, st, hist, d.symbol, size, px, StopPct(c, hist, d)))

\* the gates after the global cooldown, on the state st the cooldown gate
\* leaves (the streak reset by an early unlock)
LaterGates(c, st, hist, t, d, px, avail, equity) ==
    LET sym  == d.symbol
        rule == _get_rule(c, sym)
        size == OrderSize(c, st, hist, d, px, avail, equity)
        rr   == RewardRisk(c, d)
        L    == st.consecutive_losses
    IN  IF InSymbolCooldown(c, st, t, sym)
        THEN Reject("symbol cooldown " \o sym, L)
        ELSE IF LimitDeviates(c, d, px)
        THEN Reject("limit price deviates {}bps > guard", L)
        ELSE IF size < rule.lot_size_min
        THEN Reject("size {} below min {}", L)
        ELSE IF rr # ""
        THEN Reject(rr, L)
        ELSE IF OpenRiskExceeds(c, st, hist, d, size, px, equity)
        THEN Reject("open risk exceed cap", L)
        ELSE [ raised |-> "", approved |-> TRUE,
               order |-> Some([ symbol |-> sym, side |-> d.side,
                                order_type |-> d.order_type, size |-> size,
                                limit_price |-> IF d.order_type = "limit"
                                                THEN LimitPx(c, d) ELSE None ]),
               reason |-> "ok", consecutive_losses |-> L ]

\* the validation that takes any side but hold
Validation_any_side(d) ==
    IF d.symbol = "" THEN "missing symbol"
    ELSE IF d.side = "hold" THEN "hold (no order)"
    ELSE ""

\* the validation without the branch for hold
Validation_without_hold(d) ==
    IF d.symbol = "" THEN "missing symbol"
    ELSE IF d.side \notin {"buy", "sell", "hold"} THEN "invalid side: " \o d.side
    ELSE ""

\* the validation of the decision: the reason, or "" when it passes
Validation(d) ==
    IF d.symbol = "" THEN "missing symbol"
    ELSE IF d.side \notin {"buy", "sell", "hold"} THEN "invalid side: " \o d.side
    ELSE IF d.side = "hold" THEN "hold (no order)"
    ELSE ""

\* pre_trade_checks(decision, market, balance) on the state st at time t:
\* the verdict, and the value the call leaves in state.consecutive_losses.
\* row is market.get(sym), avail the available USDT
\* of balance, equity the value of _estimate_equity().  A formatted
\* number stands as {} in a reason.
pre_trade_checks(c, st, hist, t, d, row, avail, equity) ==
    LET sym      == d.symbol
        px       == RowPrice(row)
        L        == st.consecutive_losses
        invalid  == Validation(d)
        extreme  == ExtremeSignal(row)
        unlocked == [st EXCEPT !.consecutive_losses = 0]
    IN  IF invalid # "" THEN Reject(invalid, L)
        ELSE IF px <= 0 THEN Reject("price unavailable for " \o sym, L)
        ELSE IF equity <= 0 THEN Reject("equity unavailable", L)
        ELSE IF extreme # "" THEN Reject(extreme, L)
        ELSE IF KillSwitch(c, st, equity)
        THEN Reject("kill-switch: daily loss {}", L)
        ELSE IF d.invalidation_condition # ""
        THEN Raise("AttributeError", L)
        ELSE IF InGlobalCooldown(c, st, hist, t, d, equity)
        THEN IF can_unlock(Volatility(c, hist, sym), Confidence(d))
             THEN LaterGates(c, unlocked, hist, t, d, px, avail, equity)
             ELSE Reject("global cooldown ({}, {}s left)", L)
        ELSE LaterGates(c, st, hist, t, d, px, avail, equity)

-----------------------------------------------------------------------------
(* post_trade_update and push_price *)

\* f with f[k] = v, the key added when it is new
Put(f, k, v) == [x \in DOMAIN f \cup {k} |-> IF x = k THEN v ELSE f[x]]

\* the entry of k left in f
Del_kept(f, k) == f

\* del f[k]
Del(f, k) == [x \in DOMAIN f \ {k} |-> f[x]]

\* post_trade_update counting the streaks without resetting the other one
post_trade_update_no_reset(st, t, symbol, filled_size, fill_price, realized_pnl, side) ==
    [st EXCEPT
        !.last_trade_ts      = Put(st.last_trade_ts, symbol, t),
        !.realized_pnl_today = st.realized_pnl_today + realized_pnl,
        !.consecutive_losses = IF realized_pnl < 0 THEN @ + 1 ELSE @,
        !.consecutive_wins   = IF realized_pnl > 0 THEN @ + 1 ELSE @]

\* post_trade_update(symbol, filled_size, fill_price, realized_pnl, side) on
\* the state st at time t: the state it leaves (and saves)
post_trade_update(st, t, symbol, filled_size, fill_price, realized_pnl, side) ==
    LET losses == IF realized_pnl < 0 THEN st.consecutive_losses + 1
                  ELSE IF realized_pnl > 0 THEN 0
                  ELSE st.consecutive_losses
        wins   == IF realized_pnl < 0 THEN 0
                  ELSE IF realized_pnl > 0 THEN st.consecutive_wins + 1
                  ELSE st.consecutive_wins
        pos       == st.open_positions[symbol]
        total_qty == pos.qty + filled_size
        avg_price == RDiv(RAdd(RMul(Qty(pos.qty), pos.avg_price),
                               RMul(Qty(filled_size), Px(fill_price))),
                          Qty(total_qty))
        positions ==
            IF symbol \notin DOMAIN st.open_positions
            THEN Put(st.open_positions, symbol,
                     [side |-> side, qty |-> filled_size, avg_price |-> Px(fill_price)])
            ELSE IF total_qty # 0
            THEN Put(st.open_positions, symbol,
                     [side |-> pos.side, qty |-> total_qty, avg_price |-> avg_price])
            ELSE Del(st.open_positions, symbol)
    IN  [st EXCEPT
            !.last_trade_ts      = Put(st.last_trade_ts, symbol, t),
            !.realized_pnl_today = st.realized_pnl_today + realized_pnl,
            !.consecutive_losses = losses,
            !.consecutive_wins   = wins,
            !.open_positions     = positions,
            !.symbol_exposure    = Put(st.symbol_exposure, symbol,
                                       RAbs(RMul(Qty(filled_size), Px(fill_price))))]

\* push_price keeping the oldest maxlen prices
push_price_keep_oldest(hist, symbol, price, maxlen) ==
    LET buf == Append(IF symbol \in DOMAIN hist THEN hist[symbol] ELSE <<>>, price)
    IN  Put(hist, symbol, IF Len(buf) > maxlen THEN SubSeq(buf, 1, maxlen) ELSE buf)

\* push_price(symbol, price, maxlen): the buffer it leaves
push_price(hist, symbol, price, maxlen) ==
    LET buf == Append(IF symbol \in DOMAIN hist THEN hist[symbol] ELSE <<>>, price)
    IN  Put(hist, symbol, LastN(buf, maxlen))

-----------------------------------------------------------------------------
(* Inputs *)

\* decision["decision"]: symbol "" when missing, side "None" when missing,
\* the percentages in basis points and 0 when missing,
\* invalidation_condition "" when missing
Decision(symbol, side, order_type, limit_price, size, confidence, sl, tp, inv) ==
    [ symbol |-> symbol, side |-> side, order_type |-> order_type,
      limit_price |-> limit_price, size |-> size, confidence |-> confidence,
      risk |-> [stop_loss_pct |-> sl, take_profit_pct |-> tp],
      invalidation_condition |-> inv ]

\* market[sym]: price in cents (0 when missing), tf3m the 3m indicators
Row(price, tf3m) == Some([price |-> price, tf3m |-> tf3m])
Tf3m(rsi14, adx14) == Some([rsi14 |-> rsi14, adx14 |-> adx14])

\* market.get(sym): None when the snapshot has no row for sym
MarketRow(m, sym) == IF sym \in DOMAIN m THEN m[sym] ELSE None

\* a market buy of BTC-USDT with confidence 0.7, stop 1%, target 2%
BaseDecision ==
    Decision("BTC-USDT", "buy", "market", None, None, Some(70), 100, 200, "")

\* BTC-USDT at 50000 and ETH-USDT at 3000, no indicators
BaseMarket ==
    [s \in Symbols |-> IF s = "BTC-USDT" THEN Row(5000000, None) ELSE Row(300000, None)]

-----------------------------------------------------------------------------
(* The engine as a state machine *)

\* the seconds one step of the clock advances: past the adaptive cooldown of
\* a streak of three at the volatility floor (605 s), within the one at a
\* volatility of 1% (712 s)
TickSec == 700

\* the state after __init__ with no state file: _load_state() takes
\* _new_state(), seeded from the equity accessor when one answers; log is
\* None when the calls of push_price are not followed
InitWith(configs, seeds, log) ==
    /\ cfg \in configs
    /\ \E seed \in seeds :
          /\ state = _load_state(None, Day(StartTs), seed)
          /\ ret = [op |-> "__init__", file |-> None, equity |-> seed]
    /\ disk = None
    /\ peer = None
    /\ price_history = [s \in {} |-> <<>>]
    /\ pushed = log
    /\ now = StartTs
    /\ nfills = 0
    /\ decision = BaseDecision
    /\ market = BaseMarket
    /\ balance = 100000
    /\ account_equity = 100000
    /\ equity_provider = "returns"

InitOver(configs, seeds) == InitWith(configs, seeds, None)

\* the caller's inputs change: a new decision, market snapshot, balance,
\* account equity
Propose(d) ==
    /\ decision' = d
    /\ ret' = [op |-> "input"]
    /\ UNCHANGED <<engine, market, balance, account_equity, equity_provider>>

Snapshot(m) ==
    /\ market' = m
    /\ ret' = [op |-> "input"]
    /\ UNCHANGED <<engine, decision, balance, account_equity, equity_provider>>

Balance(a) ==
    /\ balance' = a
    /\ ret' = [op |-> "input"]
    /\ UNCHANGED <<engine, decision, market, account_equity, equity_provider>>

Equity(e) ==
    /\ account_equity' = e
    /\ ret' = [op |-> "input"]
    /\ UNCHANGED <<engine, decision, market, balance, equity_provider>>

\* the caller assigns another accessor to equity_provider, or none
Provider(p) ==
    /\ equity_provider' = p
    /\ ret' = [op |-> "input"]
    /\ UNCHANGED <<engine, decision, market, balance, account_equity>>

\* a call of pre_trade_checks(decision, market, balance)
Evaluate ==
    \E r \in {pre_trade_checks(cfg, state, price_history, now,
                  decision, MarketRow(market, decision.symbol), balance,
                  _estimate_equity(equity_provider, account_equity))} :
        /\ state' = [state EXCEPT !.consecutive_losses = r.consecutive_losses]
        /\ ret' = [ op |-> "pre_trade_checks", pre |-> state,
                    raised |-> r.raised, approved |-> r.approved,
                    order |-> r.order, reason |-> r.reason ]
        /\ UNCHANGED <<cfg, disk, peer, price_history, pushed, now, nfills, inputs>>

\* a call of post_trade_update, which updates the state and then saves it;
\* outcome is what becomes of the write of the state file
RecordFill(symbol, filled_size, fill_price, realized_pnl, side, outcome, max_fills) ==
    /\ nfills < max_fills
    /\ \E st \in {post_trade_update(state, now, symbol, filled_size, fill_price,
                                     realized_pnl, side)} :
       \E w \in {_save_state(st, disk, outcome)} :
          /\ state' = st
          /\ disk' = w.disk
          /\ ret' = [ op |-> "post_trade_update", symbol |-> symbol,
                      filled_size |-> filled_size, fill_price |-> fill_price,
                      realized_pnl |-> realized_pnl, side |-> side,
                      pre |-> state, file |-> disk, outcome |-> outcome,
                      raised |-> w.raised ]
    /\ nfills' = nfills + 1
    /\ UNCHANGED <<cfg, peer, price_history, pushed, now, inputs>>

\* the calls of push_price followed so far, one more of them on symbol
Followed(log, symbol, price) ==
    IF log = None THEN None
    ELSE Some(Put(Get(log), symbol,
                  Append(IF symbol \in DOMAIN Get(log) THEN Get(log)[symbol] ELSE <<>>, price)))

\* the number of calls of push_price followed on symbol
NumPushed(log, symbol) ==
    IF log = None \/ symbol \notin DOMAIN Get(log) THEN 0 ELSE Len(Get(log)[symbol])

\* the most calls of push_price followed on one symbol
MaxPushes == 4

\* the order the last call of pre_trade_checks admitted is filled in full at
\* the market price, and the caller records the fill: post_trade_update(
\* order["symbol"], order["size"], price, realized_pnl, order["side"])
FillOrder(realized_pnl, max_fills) ==
    /\ ret.op = "pre_trade_checks" /\ ret.approved
    /\ \E order \in {Get(ret.order)} :
          RecordFill(order.symbol, order.size,
                     RowPrice(MarketRow(market, order.symbol)), realized_pnl,
                     order.side, "ok", max_fills)

\* a call of push_price
PushPrice(symbol, price, maxlen) ==
    /\ NumPushed(pushed, symbol) < MaxPushes
    /\ price_history' = push_price(price_history, symbol, price, maxlen)
    /\ pushed' = Followed(pushed, symbol, price)
    /\ ret' = [op |-> "push_price", symbol |-> symbol, price |-> price]
    /\ UNCHANGED <<cfg, state, disk, peer, now, nfills, inputs>>

\* a call of _atr_proxy_bps(symbol)
Estimate(symbol) ==
    /\ ret' = [ op |-> "_atr_proxy_bps", symbol |-> symbol,
                value |-> _atr_proxy_bps(cfg, price_history, symbol) ]
    /\ UNCHANGED <<engine, inputs>>

\* a call of adaptive_cooldown
Cooldown(consecutive_losses, avg_drawdown, volatility, ai_confidence) ==
    /\ ret' = [ op |-> "adaptive_cooldown", consecutive_losses |-> consecutive_losses,
                avg_drawdown |-> avg_drawdown, volatility |-> volatility,
                ai_confidence |-> ai_confidence,
                value |-> adaptive_cooldown(consecutive_losses, avg_drawdown,
                                            volatility, ai_confidence) ]
    /\ UNCHANGED <<engine, inputs>>

\* a call of calculate_dynamic_position_size
Budget(base_risk_pct, ai_confidence, volatility_bps, consecutive_losses, consecutive_wins, equity) ==
    /\ ret' = [ op |-> "calculate_dynamic_position_size",
                base_risk_pct |-> base_risk_pct, ai_confidence |-> ai_confidence,
                volatility_bps |-> volatility_bps,
                consecutive_losses |-> consecutive_losses,
                consecutive_wins |-> consecutive_wins, equity |-> equity,
                value |-> calculate_dynamic_position_size(cfg, base_risk_pct,
                              ai_confidence, volatility_bps, consecutive_losses,
                              consecutive_wins, equity) ]
    /\ UNCHANGED <<engine, inputs>>

\* time passes
Tick(max_ticks) ==
    /\ now + TickSec <= StartTs + max_ticks * TickSec
    /\ now' = now + TickSec
    /\ ret' = [op |-> "tick"]
    /\ UNCHANGED <<cfg, state, disk, peer, price_history, pushed, nfills, inputs>>

\* the calendar day changes: the clock reaches the next midnight
NextDay(max_days) ==
    /\ Day(now) < Day(StartTs) + max_days
    /\ now' = (Day(now) + 1) * 86400
    /\ ret' = [op |-> "midnight"]
    /\ UNCHANGED <<cfg, state, disk, peer, price_history, pushed, nfills, inputs>>

\* RiskManager(cfg) is built anew over the state file (a restart, or the
\* next cycle of ai_trader.py): __init__ empties price_history and takes
\* _load_state().  The equity accessor is the class attribute (None) until
\* the caller assigns one to the instance after __init__; early says that
\* the class itself carries an accessor, which answers during __init__.
Construct(early) ==
    \E equity \in {IF early THEN _estimate_equity(equity_provider, account_equity)
                   ELSE 0} :
        /\ state' = _load_state(disk, Day(now), equity)
        /\ price_history' = [s \in {} |-> <<>>]
        /\ pushed' = IF pushed = None THEN None ELSE Some([s \in {} |-> <<>>])
        /\ ret' = [op |-> "__init__", file |-> disk, equity |-> equity]
        /\ UNCHANGED <<cfg, disk, peer, now, nfills, inputs>>

\* the state file is damaged outside the engine (edited by hand, or cut
\* short by a crash in the middle of a write)
Damage ==
    /\ disk # None /\ disk # Corrupt
    /\ disk' = Corrupt
    /\ ret' = [op |-> "damage"]
    /\ UNCHANGED <<cfg, state, peer, price_history, pushed, now, nfills, inputs>>

\* a second RiskManager is built over the same state file (by another
\* process or thread); it has its own state in memory
\* (its pre_trade_checks reads that state only and touches neither the
\* file nor the first instance, so its fills are what is followed here)
PeerConstruct(early) ==
    \E equity \in {IF early THEN _estimate_equity(equity_provider, account_equity)
                   ELSE 0} :
        /\ peer' = Some(_load_state(disk, Day(now), equity))
        /\ ret' = [op |-> "peer __init__", file |-> disk, equity |-> equity]
        /\ UNCHANGED <<cfg, state, disk, price_history, pushed, now, nfills, inputs>>

\* the second RiskManager's post_trade_update: on its own state, saved over
\* the same file
PeerRecordFill(symbol, filled_size, fill_price, realized_pnl, side, outcome, max_fills) ==
    /\ peer # None
    /\ nfills < max_fills
    /\ \E pre \in {Get(peer)} :
       \E st \in {post_trade_update(pre, now, symbol, filled_size,
                                     fill_price, realized_pnl, side)} :
       \E w \in {_save_state(st, disk, outcome)} :
          /\ peer' = Some(st)
          /\ disk' = w.disk
          /\ ret' = [ op |-> "peer post_trade_update", symbol |-> symbol,
                      filled_size |-> filled_size, fill_price |-> fill_price,
                      realized_pnl |-> realized_pnl, side |-> side,
                      pre |-> pre, file |-> disk, outcome |-> outcome,
                      raised |-> w.raised ]
    /\ nfills' = nfills + 1
    /\ UNCHANGED <<cfg, state, price_history, pushed, now, inputs>>

\* the next-state relation over the inputs and limits of P
NextOver(P) ==
    \/ \E d \in P.decisions : Propose(d)
    \/ \E m \in P.markets : Snapshot(m)
    \/ \E a \in P.balances : Balance(a)
    \/ \E e \in P.equities : Equity(e)
    \/ Evaluate
    \/ \E f \in P.fills, w \in P.writes :
          RecordFill(f[1], f[2], f[3], f[4], f[5], w, P.max_fills)
    \/ \E p \in P.pushes : PushPrice(p[1], p[2], P.maxlen)
    \/ Tick(P.max_ticks)

-----------------------------------------------------------------------------
(* Specifications *)

\* BTC-USDT's row replaced in the base snapshot; no row when row is None
BtcMarket(row) ==
    IF row = None THEN [s \in {"ETH-USDT"} |-> BaseMarket[s]]
    ELSE [BaseMarket EXCEPT !["BTC-USDT"] = row]

\* Streaks and cooldowns: winning, losing and flat fills on BTC-USDT, the
\* clock, the price buffer of BTC-USDT (50000 and 50500, so a volatility of
\* 1% is reached), decisions on the traded and on the untraded symbol with
\* confidences around 0.80.
StreakInputs ==
    [ decisions |-> { [BaseDecision EXCEPT !.confidence = cf] :
                        cf \in {Some(79), Some(80), Some(100)} }
                    \cup { [BaseDecision EXCEPT !.symbol = "ETH-USDT"] },
      markets   |-> {BaseMarket},
      balances  |-> {100000},
      equities  |-> {100000},
      fills     |-> { <<"BTC-USDT", 1000, 5000000, pnl, "buy">> :
                        pnl \in {-100, 0, 100} },
      pushes    |-> { <<"BTC-USDT", p>> : p \in {5000000, 5050000} },
      writes    |-> {"ok"},
      max_fills |-> MaxFills,
      maxlen    |-> MaxHist,
      max_ticks |-> MaxTicks ]

Init == InitOver(Configs, {0})
Next == NextOver(StreakInputs)
Spec == Init /\ [][Next]_vars

\* The gates before the cooldowns: decisions of every symbol and side, with
\* and without an invalidation condition; market rows that are missing,
\* unpriced or carry 3m indicators; equities around the daily loss limit.
GateInputs ==
    [ decisions |-> { [BaseDecision EXCEPT !.symbol = s, !.side = sd,
                                           !.invalidation_condition = inv] :
                        s \in {"BTC-USDT", ""},
                        sd \in {"buy", "sell", "hold", "long", "None"},
                        inv \in {"", "price < 49000"} }
                    \cup { [BaseDecision EXCEPT !.symbol = "ETH-USDT"],
                           [BaseDecision EXCEPT !.confidence = None],
                           [BaseDecision EXCEPT !.side = "hold", !.order_type = "limit",
                                                !.limit_price = Some(1)] },
      markets   |-> { BtcMarket(r) :
                        r \in { None, Row(0, None), Row(-1, None), Row(5000000, None),
                                Row(5000000, Tf3m(95, 20)), Row(5000000, Tf3m(5, 20)),
                                Row(5000000, Tf3m(50, 85)), Row(5000000, Tf3m(90, 80)),
                                Row(5000000, Tf3m(0, 0)) } },
      balances  |-> {100000},
      equities  |-> {0, 20, 96000, 97000, 97010, 100000},
      fills     |-> { <<"BTC-USDT", 1000, 5000000, -50, "buy">> },
      pushes    |-> { <<"BTC-USDT", 5000000>> },
      writes    |-> {"ok"},
      max_fills |-> GateFills,
      maxlen    |-> GateFills,
      max_ticks |-> GateFills ]

NextGates == NextOver(GateInputs)
SpecGates == Init /\ [][NextGates]_vars

\* Sizing and the reward/risk screen: stops and targets around the floors,
\* size hints around the lot minimum, limit prices around the guard, small
\* and ample balances and equities, and a fill of 200 ETH-USDT whose
\* estimated risk (600000 * 0.005) fills the open-risk cap of 3% of 100000.
SizingInputs ==
    [ decisions |-> { [BaseDecision EXCEPT !.size = sz, !.risk = rk] :
                        sz \in {None, Some(0), Some(5), Some(15), Some(1000)},
                        rk \in { [stop_loss_pct |-> x[1], take_profit_pct |-> x[2]] :
                                    x \in { <<0, 0>>, <<100, 0>>, <<0, 200>>, <<100, 120>>,
                                            <<100, 150>>, <<40, 60>>, <<100, 200>> } } }
                    \cup { [BaseDecision EXCEPT !.symbol = "ETH-USDT", !.size = sz] :
                             sz \in {None, Some(50), Some(150)} }
                    \cup { [BaseDecision EXCEPT !.confidence = cf] :
                             cf \in {None, Some(0), Some(100)} }
                    \cup { [BaseDecision EXCEPT !.order_type = "limit", !.limit_price = lp] :
                             lp \in { None, Some(0), Some(4985000), Some(5015000),
                                      Some(5015005), Some(5025000) } },
      markets   |-> {BaseMarket},
      balances  |-> {3, 11000, 100000},
      equities  |-> {20, 97010, 100000},
      fills     |-> { <<"ETH-USDT", 2000000, 300000, 100, "buy">> },
      pushes    |-> { <<"BTC-USDT", 5000000>> },
      writes    |-> {"ok"},
      max_fills |-> GateFills,
      maxlen    |-> GateFills,
      max_ticks |-> GateFills ]

NextSizing == NextOver(SizingInputs)
SpecSizing == Init /\ [][NextSizing]_vars

\* The price and equity preconditions: buy, sell and hold decisions, with and
\* without an invalidation condition; a snapshot with no row for BTC-USDT,
\* with a row without a price, with a negative price and with a price; an
\* accessor that is not set, raises, or returns a negative, zero or positive
\* equity (96000 trips the kill switch); a state with and without a fill.
DataInputs ==
    [ decisions |-> { [BaseDecision EXCEPT !.side = sd, !.invalidation_condition = inv] :
                        sd \in {"buy", "sell", "hold"}, inv \in {"", "price < 49000"} },
      markets   |-> { BtcMarket(row) : row \in {None, Row(0, None), Row(-1, None),
                                                 Row(5000000, None)} },
      balances  |-> {100000},
      equities  |-> {-1, 0, 96000, 100000},
      providers |-> {"returns", "raises", "unset"},
      fills     |-> { <<"BTC-USDT", 1000, 5000000, -50, "buy">> },
      writes    |-> {"ok"},
      pushes    |-> { <<"BTC-USDT", 5000000>> },
      max_fills |-> GateFills,
      maxlen    |-> MaxHist,
      max_ticks |-> MaxTicks ]

NextData ==
    \/ NextOver(DataInputs)
    \/ \E p \in DataInputs.providers : Provider(p)
SpecData == Init /\ [][NextData]_vars

\* The state file and the trading day: losing fills on BTC-USDT whose write
\* succeeds or fails, the engine built anew over the file (with and without
\* an accessor answering during __init__), the file damaged, midnight, and
\* an account equity of 96000 or 100000.
PersistInputs ==
    [ decisions |-> {BaseDecision},
      markets   |-> {BaseMarket},
      balances  |-> {100000},
      equities  |-> {96000, 100000},
      fills     |-> { <<"BTC-USDT", 1000, 5000000, -100, "buy">> },
      writes    |-> {"ok", "open fails", "write fails"},
      pushes    |-> { <<"BTC-USDT", 5000000>> },
      early     |-> BOOLEAN,
      max_fills |-> PersistFills,
      maxlen    |-> GateFills,
      max_ticks |-> MaxTicks,
      max_days  |-> MaxDays ]

NextPersist ==
    \/ NextOver(PersistInputs)
    \/ NextDay(PersistInputs.max_days)
    \/ \E early \in PersistInputs.early : Construct(early)
    \/ Damage
SpecPersist == Init /\ [][NextPersist]_vars

\* The kill switch over a trading day: an account equity 4% under, 3% under
\* and at the day's opening equity, in any order, decisions on two symbols,
\* a losing fill, midnight and a restart.  The calendar is not the engine's
\* to stop: the next midnight comes.
LatchInputs ==
    [ decisions |-> {BaseDecision, [BaseDecision EXCEPT !.symbol = "ETH-USDT"]},
      markets   |-> {BaseMarket},
      balances  |-> {100000},
      equities  |-> {96000, 97000, 100000},
      fills     |-> { <<"BTC-USDT", 1000, 5000000, -50, "buy">> },
      writes    |-> {"ok"},
      pushes    |-> { <<"BTC-USDT", 5000000>> },
      early     |-> BOOLEAN,
      max_fills |-> GateFills,
      maxlen    |-> MaxHist,
      max_ticks |-> MaxTicks,
      max_days  |-> MaxDays ]

NextLatch ==
    \/ NextOver(LatchInputs)
    \/ NextDay(LatchInputs.max_days)
    \/ \E early \in LatchInputs.early : Construct(early)
SpecLatch == Init /\ [][NextLatch]_vars /\ WF_vars(NextDay(LatchInputs.max_days))

\* Two RiskManagers on one state file: a losing fill on BTC-USDT and a
\* winning one on ETH-USDT by either, every write succeeding, the second
\* built at any moment.
PeerInputs ==
    [ decisions |-> {BaseDecision},
      markets   |-> {BaseMarket},
      balances  |-> {100000},
      equities  |-> {100000},
      fills     |-> { <<"BTC-USDT", 1000, 5000000, -100, "buy">>,
                      <<"ETH-USDT", 10000, 300000, 50, "buy">> },
      writes    |-> {"ok"},
      pushes    |-> { <<"BTC-USDT", 5000000>> },
      early     |-> {FALSE},
      max_fills |-> PersistFills,
      maxlen    |-> MaxHist,
      max_ticks |-> MaxTicks ]

NextPeer ==
    \/ NextOver(PeerInputs)
    \/ \E early \in PeerInputs.early : Construct(early)
    \/ \E early \in PeerInputs.early : PeerConstruct(early)
    \/ \E f \in PeerInputs.fills, w \in PeerInputs.writes :
          PeerRecordFill(f[1], f[2], f[3], f[4], f[5], w, PeerInputs.max_fills)
SpecPeer == Init /\ [][NextPeer]_vars

\* The end of a cooldown: losing fills on BTC-USDT up to the threshold of
\* the streak, decisions with a confidence of 0.7 and of 0.4 (which doubles
\* the adaptive cooldown), and the clock, which is followed from every fill
\* until the longest cooldown has passed.  Time does not wait for the
\* engine: the clock advances.
ExpiryDecisions == { [BaseDecision EXCEPT !.confidence = cf] : cf \in {Some(40), Some(70)} }

\* the ticks of the clock followed: one at the start, and after a trade as
\* many as reach CooldownCeiling from the latest trade
ExpiryTicks ==
    IF DOMAIN state.last_trade_ts = {} THEN MaxTicks
    ELSE LET last_ts == MaxOf({state.last_trade_ts[s] : s \in DOMAIN state.last_trade_ts})
         IN  (last_ts - StartTs) \div TickSec + (CooldownCeiling + TickSec - 1) \div TickSec

ExpiryInputs ==
    [ decisions |-> ExpiryDecisions,
      markets   |-> {BaseMarket},
      balances  |-> {100000},
      equities  |-> {100000},
      fills     |-> { <<"BTC-USDT", 1000, 5000000, -100, "buy">> },
      writes    |-> {"ok"},
      pushes    |-> { <<"BTC-USDT", 5000000>> },
      max_fills |-> MaxFills,
      maxlen    |-> GateFills,
      max_ticks |-> MaxTicks ]

NextExpiry ==
    \/ NextOver(ExpiryInputs)
    \/ Tick(ExpiryTicks)
SpecExpiry == Init /\ [][NextExpiry]_vars /\ WF_vars(Tick(ExpiryTicks))


\* The position book: fills on BTC-USDT that open a position, add to it at
\* another price and sell out of it (a negative filled_size), and a fill on
\* ETH-USDT, in any order.
BookInputs ==
    [ decisions |-> {BaseDecision},
      markets   |-> {BaseMarket},
      balances  |-> {100000},
      equities  |-> {100000},
      fills     |-> { <<"BTC-USDT", 1000, 5000000, 100, "buy">>,
                      <<"BTC-USDT", 1000, 5100000, 0, "buy">>,
                      <<"BTC-USDT", -1000, 5050000, -50, "sell">>,
                      <<"ETH-USDT", 10000, 300000, 50, "buy">> },
      writes    |-> {"ok"},
      pushes    |-> { <<"BTC-USDT", 5000000>> },
      max_fills |-> MaxFills,
      maxlen    |-> GateFills,
      max_ticks |-> MaxTicks ]

NextBook == NextOver(BookInputs)
SpecBook == Init /\ [][NextBook]_vars


\* The price buffers: prices pushed on both symbols, in any order, more of
\* them than a buffer of MaxHist prices holds, every call followed.
BufferPushes == { <<s, p>> : s \in Symbols, p \in {5000000, 5050000} }

InitBuffer == InitWith({ProductionConfig}, {0}, Some([s \in {} |-> <<>>]))
NextBuffer == \E p \in BufferPushes : PushPrice(p[1], p[2], MaxHist)
SpecBuffer == InitBuffer /\ [][NextBuffer]_vars


\* The volatility estimate: configurations with a lookback of 2, of 3 and of
\* 14 (the default); prices of BTC-USDT 10 and 100 basis points apart pushed
\* in any order into a buffer of VolHist prices, none of ETH-USDT; the
\* estimate of either symbol asked for at any moment.
VolHist == 5
VolConfigs == { [ProductionConfig EXCEPT !.atr_lookback = n] : n \in {2, 3, 14} }
VolPushes == { <<"BTC-USDT", p>> : p \in {5000000, 5005000, 5050000} }

InitVol == InitOver(VolConfigs, {0})
NextVol ==
    \/ \E p \in VolPushes : PushPrice(p[1], p[2], VolHist)
    \/ \E s \in Symbols : Estimate(s)
SpecVol == InitVol /\ [][NextVol]_vars


\* The cooldown formula: streaks from none to MaxStreak losses, drawdowns
\* of 0 to 5%, volatilities from 0 over the floor of 25 basis points to 10%,
\* confidences around 0.5.
MaxStreak == 5
CooldownInputs ==
    [ losses       |-> 0..MaxStreak,
      drawdowns    |-> {RZero, Rat(1, 100), Rat(3, 100), Rat(5, 100)},
      volatilities |-> {RZero, Rat(25, 10000), Rat(1, 100), Rat(2, 100), Rat(10, 100)},
      confidences  |-> {0, 49, 50, 100} ]

\* adaptive_cooldown is a static method: the engine's state plays no part
NextCooldown ==
    \E L \in CooldownInputs.losses, dd \in CooldownInputs.drawdowns,
       v \in CooldownInputs.volatilities, cf \in CooldownInputs.confidences :
          Cooldown(L, dd, v, cf)
InitCooldown == InitOver({ProductionConfig}, {0})
SpecCooldown == InitCooldown /\ [][NextCooldown]_vars


\* The risk budget: the base risk of the configuration and twice it (which
\* reaches the upper clamp), confidences 0, 0.7 and 1, volatilities under,
\* at, between and over the two thresholds, streaks around the 2 losses and
\* the 3 wins that change the scale (and both at once), two equities.
BudgetInputs ==
    [ bases        |-> {Rat(5, 1000), Rat(1, 100)},
      confidences  |-> {0, 70, 100},
      volatilities |-> {RInt(25), RInt(30), RInt(65), Rat(185, 2), RInt(100), RInt(150)},
      streaks      |-> { <<0, 0>>, <<1, 2>>, <<2, 0>>, <<0, 3>>, <<2, 3>> },
      equities     |-> {97010, 100000} ]

NextBudget ==
    \E b \in BudgetInputs.bases, cf \in BudgetInputs.confidences,
       v \in BudgetInputs.volatilities, st \in BudgetInputs.streaks,
       e \in BudgetInputs.equities :
          Budget(b, cf, v, st[1], st[2], e)
SpecBudget == Init /\ [][NextBudget]_vars


\* Orders that are filled: decisions to buy BTC-USDT and ETH-USDT, every
\* admitted order filled in full at the market price and recorded with no
\* realized P&L, the clock running past the symbol cooldown between the
\* calls; price, balance and equity stay as they are.
ExposureDecisions == {BaseDecision, [BaseDecision EXCEPT !.symbol = "ETH-USDT"]}

NextExposure ==
    \/ \E d \in ExposureDecisions : Propose(d)
    \/ Evaluate
    \/ FillOrder(0, MaxFills)
    \/ Tick(MaxFills)
SpecExposure == Init /\ [][NextExposure]_vars


\* Fills that close: a buy of 0.1 BTC-USDT and a sell of 0.1 BTC-USDT
\* (post_trade_update(symbol, 0.1, 50000.0, -50.0, "sell")), in any order,
\* and decisions on BTC-USDT and on ETH-USDT evaluated in between.
CloseInputs ==
    [ decisions |-> {BaseDecision, [BaseDecision EXCEPT !.symbol = "ETH-USDT"]},
      markets   |-> {BaseMarket},
      balances  |-> {100000},
      equities  |-> {100000},
      fills     |-> { <<"BTC-USDT", 1000, 5000000, 100, "buy">>,
                      <<"BTC-USDT", 1000, 5000000, -50, "sell">> },
      writes    |-> {"ok"},
      pushes    |-> { <<"BTC-USDT", 5000000>> },
      max_fills |-> MaxFills,
      maxlen    |-> GateFills,
      max_ticks |-> MaxTicks ]

NextClose == NextOver(CloseInputs)
SpecClose == Init /\ [][NextClose]_vars


-----------------------------------------------------------------------------
(* Properties *)

\* the string s contains the string t
Contains(s, t) ==
    \E i \in 1..(Len(s) - Len(t) + 1) : SubSeq(s, i, i + Len(t) - 1) = t

\* the last operation was a call of pre_trade_checks; the inputs, the clock
\* and the price buffer are still the ones it saw, ret.pre the state it saw
Called == ret.op = "pre_trade_checks"

\* the call returned a rejection whose reason contains token
RejectedWith(token) ==
    /\ Called /\ ret.raised = "" /\ ~ret.approved /\ ret.order = None
    /\ Contains(ret.reason, token)

\* the call was stopped by none of the validation, price, equity and
\* extreme-signal gates
PassedDataGates ==
    /\ Called
    /\ \A token \in {"missing symbol", "invalid side", "hold", "price unavailable",
                      "equity unavailable", "3m "} : ~Contains(ret.reason, token)

\* C1: a call that passes the validation, price, equity and extreme-signal
\* gates is rejected with a reason containing "kill-switch" exactly when
\* (equity - day_open_equity) / day_open_equity <= -daily_loss_limit_pct.
C1_KillSwitch ==
    PassedDataGates =>
        LET doe    == ret.pre.day_open_equity
            limit  == cfg.daily_loss_limit_pct
            breach == (account_equity - doe) * limit[2] <= -(limit[1] * doe)
        IN  /\ breach => RejectedWith("kill-switch")
            /\ ~breach => ~Contains(ret.reason, "kill-switch")

\* a drawdown of exactly -3.00% (97000 against 100000) was rejected by the
\* kill switch
C1_Witness ==
    /\ PassedDataGates /\ RejectedWith("kill-switch")
    /\ account_equity = 97000 /\ ret.pre.day_open_equity = 100000

\* the call reached the loss-streak cooldown gate: no earlier gate stopped
\* it and it returned
ReachedCooldownGate ==
    /\ PassedDataGates /\ ret.raised = ""
    /\ ~Contains(ret.reason, "kill-switch")

\* the decision evaluated has volatility < 1% and confidence >= 0.80
LowVolHighConfidence ==
    /\ RLt(Volatility(cfg, price_history, decision.symbol), Rat(1, 100))
    /\ Confidence(decision) >= 80

\* C2 (as amended): a call that starts with consecutive_losses at the
\* threshold and less than the required cooldown elapsed since the most
\* recent trade is rejected with "global cooldown" unless the decision has
\* volatility < 1% and confidence >= 0.80, in which case the streak is reset
\* to 0 and the cooldown gate lets it through; outside that window the gate
\* rejects nothing.
C2_Cooldown ==
    ReachedCooldownGate =>
        IF InGlobalCooldown(cfg, ret.pre, price_history, now, decision, account_equity)
        THEN IF LowVolHighConfidence
             THEN ~Contains(ret.reason, "global cooldown")
                  /\ state.consecutive_losses = 0
             ELSE RejectedWith("global cooldown")
        ELSE ~Contains(ret.reason, "global cooldown")

\* a decision with confidence 1.0 was rejected inside the window because
\* volatility was at 1%
C2_Witness ==
    /\ ReachedCooldownGate /\ RejectedWith("global cooldown")
    /\ InGlobalCooldown(cfg, ret.pre, price_history, now, decision, account_equity)
    /\ Confidence(decision) = 100
    /\ ~RLt(Volatility(cfg, price_history, decision.symbol), Rat(1, 100))

\* C2 as stated: once the streak has reached the threshold (the state saved
\* by the last fill has it there, and no fill has followed), no call is
\* admitted inside the cooldown window of that streak unless its own
\* decision has volatility < 1% and confidence >= 0.80.
C2_Original ==
    (/\ Called /\ ret.approved
     /\ disk # None
     /\ Get(disk).consecutive_losses >= cfg.max_consecutive_losses
     /\ InGlobalCooldown(cfg, Get(disk), price_history, now, decision, account_equity))
    => LowVolHighConfidence

\* the call reached the sizing stage: it returned and no gate before the
\* lot minimum stopped it
ReachedSizing ==
    /\ ReachedCooldownGate
    /\ \A token \in {"global cooldown", "symbol cooldown", "limit price deviates"} :
            ~Contains(ret.reason, token)

\* the quantity before alignment of the call (sized on the state the call
\* leaves, an early unlock included), floored to the lot step, in units of
\* 0.0001
FlooredSize ==
    LET rule == _get_rule(cfg, decision.symbol)
        q    == SizeBeforeAlign(cfg, state, price_history, decision,
                    RowPrice(MarketRow(market, decision.symbol)), balance,
                    account_equity)
        lots == (q[1] * 10000) \div (q[2] * rule.lot_size_step)
    IN  lots * rule.lot_size_step

\* C3: an admitted order's size is an exact multiple of the symbol's
\* lot_size_step and at least lot_size_min; a quantity that floored to the
\* lot step is below lot_size_min is rejected, not raised to the minimum.
C3_LotAlignment ==
    LET rule == _get_rule(cfg, decision.symbol)
    IN  /\ Called /\ ret.approved =>
              /\ Get(ret.order).size % rule.lot_size_step = 0
              /\ Get(ret.order).size >= rule.lot_size_min
              /\ Get(ret.order).size = FlooredSize
        /\ ReachedSizing /\ FlooredSize < rule.lot_size_min =>
              RejectedWith("below min")

\* a size hint of 0.0015 on a lot step of 0.001 was admitted as 0.001
C3_Witness ==
    /\ Called /\ ret.approved
    /\ decision.size = Some(15)
    /\ _get_rule(cfg, decision.symbol).lot_size_step = 10
    /\ Get(ret.order).size = 10

\* C4: a fill with realized_pnl > 0 leaves consecutive_losses = 0; one with
\* realized_pnl < 0 leaves consecutive_wins = 0 and consecutive_losses one
\* higher; the two counters are never both nonzero.
C4_Streaks ==
    /\ ~(state.consecutive_losses # 0 /\ state.consecutive_wins # 0)
    /\ ret.op = "post_trade_update" =>
          /\ ret.realized_pnl > 0 => state.consecutive_losses = 0
          /\ ret.realized_pnl < 0 =>
                /\ state.consecutive_wins = 0
                /\ state.consecutive_losses = ret.pre.consecutive_losses + 1

\* a losing fill ended a winning streak
C4_Witness ==
    /\ ret.op = "post_trade_update" /\ ret.realized_pnl < 0
    /\ ret.pre.consecutive_wins > 0
    /\ state.consecutive_wins = 0 /\ state.consecutive_losses = 1

\* C5 (as amended): a decision with side = hold is never admitted and gets
\* no order; its reason is "hold (no order)" when it names a symbol and
\* "missing symbol" when it does not.
C5_Hold ==
    Called /\ decision.side = "hold" =>
        /\ ret.raised = "" /\ ~ret.approved /\ ret.order = None
        /\ decision.symbol # "" => ret.reason = "hold (no order)"
        /\ decision.symbol = "" => ret.reason = "missing symbol"

\* a hold that names a symbol and carries a limit price was turned down as
\* a hold
C5_Witness ==
    /\ Called /\ decision.side = "hold" /\ decision.symbol # ""
    /\ decision.limit_price # None
    /\ ret.reason = "hold (no order)"

\* C5 as stated: every hold is answered (false, none, "hold")
C5_Original ==
    Called /\ decision.side = "hold" =>
        ~ret.approved /\ ret.order = None /\ ret.reason = "hold"

\* the verdict of the call had the timestamp of symbol A not been on record
WithoutTimestamp(A) ==
    pre_trade_checks(cfg, [ret.pre EXCEPT !.last_trade_ts = Del(@, A)],
        price_history, now, decision, MarketRow(market, decision.symbol), balance,
        account_equity)

\* the symbol-cooldown gate rejected only on the decision's own timestamp
OwnTimestampOnly ==
    Called /\ Contains(ret.reason, "symbol cooldown") =>
        /\ decision.symbol \in DOMAIN ret.pre.last_trade_ts
        /\ now - ret.pre.last_trade_ts[decision.symbol] < cfg.symbol_cooldown_sec

\* C6 (as amended): the symbol-cooldown gate rejects a decision on B only on
\* B's own last trade, never on a trade of another symbol A; and while the
\* loss streak is below the threshold, a decision on B that is admitted
\* without A's timestamp is admitted with it.
C6_SymbolCooldown ==
    /\ OwnTimestampOnly
    /\ Called /\ ret.pre.consecutive_losses < cfg.max_consecutive_losses =>
          \A A \in DOMAIN ret.pre.last_trade_ts \ {decision.symbol} :
              WithoutTimestamp(A).approved => ret.approved

\* a decision on a symbol never traded was admitted in the tick of a trade
\* on another symbol
C6_Witness ==
    /\ Called /\ ret.approved
    /\ decision.symbol \notin DOMAIN ret.pre.last_trade_ts
    /\ \E A \in DOMAIN ret.pre.last_trade_ts :
           now - ret.pre.last_trade_ts[A] < cfg.symbol_cooldown_sec

\* C6 as stated: whatever the loss streak, a decision on B that is admitted
\* without A's timestamp is admitted with it
C6_Original ==
    /\ OwnTimestampOnly
    /\ Called =>
          \A A \in DOMAIN ret.pre.last_trade_ts \ {decision.symbol} :
              WithoutTimestamp(A).approved => ret.approved

\* C7: pre_trade_checks returns a verdict and never raises; a missing symbol
\* or an invalid side is a validation rejection.
C7_NoExceptions ==
    Called =>
        /\ ret.raised = ""
        /\ decision.symbol = "" => RejectedWith("missing symbol")
        /\ decision.symbol # "" /\ decision.side \notin {"buy", "sell", "hold"} =>
              RejectedWith("invalid side")

\* the call reached the reward/risk screen
ReachedRewardRisk == ReachedSizing /\ ~Contains(ret.reason, "below min")

\* C8: of the decisions with stop_loss_pct > 0 and take_profit_pct > 0 that
\* reach the reward/risk screen, those with take_profit_pct / stop_loss_pct
\* < 1.5 are rejected with "raw R too low", the others are rejected when
\* (take_profit_pct - 2 fee) / (stop_loss_pct + 2 fee) < 1.0; none with a
\* raw R < 1.5 or an effective R < 1.0 is admitted.
C8_RewardRisk ==
    LET tp      == decision.risk.take_profit_pct
        sl      == decision.risk.stop_loss_pct
        fee     == cfg.fee_rate_bps
        raw_low == tp * 10 < sl * 15
        eff_low == tp - 2 * fee < sl + 2 * fee
    IN  Called /\ sl > 0 /\ tp > 0 =>
            /\ ReachedRewardRisk /\ raw_low => RejectedWith("raw R too low")
            /\ ReachedRewardRisk /\ ~raw_low /\ eff_low =>
                  RejectedWith("effective R after fees")
            /\ ret.approved => ~raw_low /\ ~eff_low

\* a decision with raw R = 1.2 was rejected although the same decision with
\* a target of 2% is admitted
C8_Witness ==
    /\ ReachedRewardRisk /\ RejectedWith("raw R too low")
    /\ decision.risk = [stop_loss_pct |-> 100, take_profit_pct |-> 120]
    /\ pre_trade_checks(cfg, ret.pre, price_history, now,
           [decision EXCEPT !.risk.take_profit_pct = 200],
           MarketRow(market, decision.symbol), balance, account_equity).approved

\* the baseline scenario: equity and day_open_equity 100000, BTC-USDT at
\* 50000 on a lot step and minimum of 0.001, a market buy with confidence
\* 0.7, stop 1%, target 2%, ample balance, no price history, no trade yet
Baseline ==
    /\ Called
    /\ account_equity = 100000 /\ ret.pre = _new_state(100000, Day(now))
    /\ decision = BaseDecision /\ market = BaseMarket /\ balance = 100000
    /\ _get_rule(cfg, "BTC-USDT").lot_size_step = 10
    /\ _get_rule(cfg, "BTC-USDT").lot_size_min = 10
    /\ price_history = [s \in {} |-> <<>>]

\* C9: the baseline scenario is admitted with reason "ok" and an order to
\* buy BTC-USDT whose size is > 0 and a multiple of 0.001.
C9_Baseline ==
    Baseline =>
        /\ ret.raised = "" /\ ret.approved /\ ret.reason = "ok"
        /\ ret.order # None
        /\ Get(ret.order).symbol = "BTC-USDT" /\ Get(ret.order).side = "buy"
        /\ Get(ret.order).size > 0 /\ Get(ret.order).size % 10 = 0

\* the baseline scenario was evaluated and sized at 0.6
C9_Witness == Baseline /\ ret.approved /\ Get(ret.order).size = 6000

\* C10 (as amended): a call of pre_trade_checks leaves every field of the
\* state unchanged except consecutive_losses, which it resets to 0 only when
\* the loss-streak cooldown is being served and the decision has volatility
\* < 1% and confidence >= 0.80; apart from that reset only post_trade_update
\* changes the state.
C10_ReadOnly ==
    [][ /\ ret'.op = "pre_trade_checks" =>
              /\ state' = [state EXCEPT !.consecutive_losses = state'.consecutive_losses]
              /\ state'.consecutive_losses # state.consecutive_losses =>
                    /\ state'.consecutive_losses = 0
                    /\ InGlobalCooldown(cfg, state, price_history, now, decision,
                                        account_equity)
                    /\ LowVolHighConfidence
        /\ ret'.op \notin {"pre_trade_checks", "post_trade_update"} => state' = state
      ]_vars

\* a call left the streak at 0 that found it at the threshold
C10_Witness ==
    /\ Called
    /\ ret.pre.consecutive_losses >= cfg.max_consecutive_losses
    /\ state.consecutive_losses = 0
    /\ state = [ret.pre EXCEPT !.consecutive_losses = 0]

\* C10 as stated: a call of pre_trade_checks leaves the state unchanged
C10_Original == [][ret'.op = "pre_trade_checks" => state' = state]_vars

-----------------------------------------------------------------------------
(* Persistence *)

\* the state file parses
Parses(file) == file # None /\ file # Corrupt

\* post_trade_update has returned without an error
Recorded == ret.op = "post_trade_update" /\ ret.raised = ""

\* C11: whenever post_trade_update (record_fill) returns normally, the state
\* file holds exactly the state the call left in memory, which is the state
\* the call found updated by the fill.
C11_PersistedOnReturn ==
    Recorded =>
        /\ disk = Some(state)
        /\ state = post_trade_update(ret.pre, now, ret.symbol, ret.filled_size,
                                     ret.fill_price, ret.realized_pnl, ret.side)

\* a second fill has returned: the file held the state of the first and now
\* holds the state with both
C11_Witness ==
    /\ Recorded
    /\ ret.file # None /\ ret.file # Corrupt /\ ret.file # disk
    /\ Get(ret.file).consecutive_losses = 1 /\ state.consecutive_losses = 2

\* C19: when the write of the state file fails during post_trade_update, the
\* error leaves post_trade_update; so a call that returns normally has never
\* left a state in memory that differs from the one in the file.
C19_WriteFailureRaises ==
    ret.op = "post_trade_update" =>
        /\ ret.outcome # "ok" => ret.raised = "OSError"
        /\ disk # Some(state) => ret.raised # ""

\* a write has failed half-way: the error is raised, the fill is in the
\* state in memory and the file is unreadable
C19_Witness ==
    /\ ret.op = "post_trade_update" /\ ret.outcome = "write fails"
    /\ ret.raised = "OSError"
    /\ Parses(ret.file) /\ disk = Corrupt
    /\ state.realized_pnl_today # ret.pre.realized_pnl_today

-----------------------------------------------------------------------------
(* The order of the gates and their reasons *)

\* the tokens of the reasons, gate by gate in the order of the claim:
\* validation, price, equity, extreme signal, kill switch, invalidation,
\* loss-streak cooldown, symbol cooldown, limit-price deviation, minimum
\* lot, reward/risk, open-risk cap
GateTokens ==
    << {"missing symbol", "invalid side", "hold"}, {"price unavailable"},
       {"equity unavailable"}, {"3m "}, {"kill-switch"}, {"invalidation"},
       {"global cooldown"}, {"symbol cooldown"}, {"limit price deviates"},
       {"below min"}, {"raw R too low", "effective R after fees"},
       {"open risk"} >>

\* the row and the price the call saw
CalledRow == MarketRow(market, decision.symbol)
CalledPx == RowPrice(CalledRow)

\* the equity the call saw
CalledEquity == _estimate_equity(equity_provider, account_equity)

\* the decision is well-formed and price and equity are there, so that the
\* later gates have what they compute with
Computable == Validation(decision) = "" /\ CalledPx > 0 /\ CalledEquity > 0

\* gate i, taken by itself, rejects the inputs of the call.  The gates from
\* the symbol cooldown on see the state the cooldown gate leaves, which is
\* the state after the call.  The invalidation gate has no verdict of its
\* own: the evaluator it calls does not exist.
GateFails(i) ==
    CASE i = 1 -> Validation(decision) # ""
      [] i = 2 -> CalledPx <= 0
      [] i = 3 -> CalledEquity <= 0
      [] i = 4 -> ExtremeSignal(CalledRow) # ""
      [] i = 5 -> KillSwitch(cfg, ret.pre, CalledEquity)
      [] i = 6 -> FALSE
      [] i = 7 -> /\ Computable
                  /\ InGlobalCooldown(cfg, ret.pre, price_history, now, decision,
                                      CalledEquity)
                  /\ ~can_unlock(Volatility(cfg, price_history, decision.symbol),
                                 Confidence(decision))
      [] i = 8 -> Computable /\ InSymbolCooldown(cfg, state, now, decision.symbol)
      [] i = 9 -> Computable /\ LimitDeviates(cfg, decision, CalledPx)
      [] i = 10 -> /\ Computable
                   /\ OrderSize(cfg, state, price_history, decision, CalledPx,
                                balance, CalledEquity)
                        < _get_rule(cfg, decision.symbol).lot_size_min
      [] i = 11 -> Computable /\ RewardRisk(cfg, decision) # ""
      [] i = 12 -> /\ Computable
                   /\ OpenRiskExceeds(cfg, state, price_history, decision,
                          OrderSize(cfg, state, price_history, decision, CalledPx,
                                    balance, CalledEquity),
                          CalledPx, CalledEquity)

\* the call was rejected with the reason of gate j
RejectedAtGate(j) == \E token \in GateTokens[j] : RejectedWith(token)

\* C12: whenever a gate would reject the inputs of a call of
\* pre_trade_checks, the call is rejected with the reason of that gate or of
\* an earlier one; so of several gates that would reject, the earliest gives
\* the reason.
C12_GateOrder ==
    Called =>
        \A i \in 1..12 : GateFails(i) => \E j \in 1..i : RejectedAtGate(j)

\* the decision of the call is a well-formed buy or sell
ValidOrder == Called /\ Validation(decision) = ""

\* C13: whenever the equity accessor returns a value <= 0, raises or is not
\* set, a call of pre_trade_checks with a valid buy or sell decision and an
\* available price returns (False, None, "equity unavailable"), raises
\* nothing and leaves the state as it was.
C13_EquityUnavailable ==
    ValidOrder /\ CalledPx > 0
        /\ (equity_provider # "returns" \/ account_equity <= 0)
    => /\ ret.raised = "" /\ ~ret.approved /\ ret.order = None
       /\ ret.reason = "equity unavailable"
       /\ state = ret.pre

\* the accessor raises, on a decision that carries an invalidation condition
\* and a state in the symbol cooldown
C13_Witness ==
    /\ ValidOrder /\ CalledPx > 0
    /\ equity_provider = "raises" /\ account_equity = 100000
    /\ decision.invalidation_condition # ""
    /\ ret.pre.consecutive_losses = 1
    /\ ret.reason = "equity unavailable"

\* C14: whenever the snapshot has no row for the decision's symbol, no price
\* in the row, or a price <= 0, a call of pre_trade_checks with a valid buy
\* or sell decision is rejected with a reason containing "price unavailable",
\* whatever the equity and the state, which the call leaves as it was.
C14_PriceUnavailable ==
    ValidOrder /\ (CalledRow = None \/ Get(CalledRow).price <= 0)
    => RejectedWith("price unavailable") /\ state = ret.pre

\* a negative price, with the equity at hand and a fill on record
C14_Witness ==
    /\ ValidOrder /\ CalledRow # None /\ Get(CalledRow).price < 0
    /\ CalledEquity = 100000 /\ ret.pre.consecutive_losses = 1
    /\ RejectedWith("price unavailable for BTC-USDT")

\* the tokens of the reasons as pre_trade_checks writes them
ReasonsOfCode ==
    [ hold |-> "hold", price |-> "price unavailable",
      equity |-> "equity unavailable", kill |-> "kill-switch",
      global |-> "global cooldown", symbol |-> "symbol cooldown",
      limit |-> "limit price deviates", size |-> "below min",
      raw |-> "raw R too low", effective |-> "effective R after fees",
      risk |-> "open risk exceed cap" ]

\* the tokens as the claim lists them
ReasonsOfClaim ==
    [ ReasonsOfCode EXCEPT !.size = "size below minimum lot",
                           !.effective = "effective R after fees too low",
                           !.risk = "open risk exceeds cap" ]

\* the raw check of the reward/risk screen fails: both percentages are
\* given and take_profit_pct / stop_loss_pct < 1.5
RawRLow(d) ==
    /\ d.risk.take_profit_pct > 0 /\ d.risk.stop_loss_pct > 0
    /\ RLt(Rat(d.risk.take_profit_pct, d.risk.stop_loss_pct), Rat(15, 10))

\* the token of T that belongs to gate i on the inputs of the call; "" for
\* a rejection that has no token in the list (a missing symbol, an invalid
\* side, an extreme signal, an invalidation)
GateToken(T, i) ==
    CASE i = 1 -> IF decision.symbol # "" /\ decision.side = "hold"
                  THEN T.hold ELSE ""
      [] i = 2 -> T.price
      [] i = 3 -> T.equity
      [] i = 5 -> T.kill
      [] i = 7 -> T.global
      [] i = 8 -> T.symbol
      [] i = 9 -> T.limit
      [] i = 10 -> T.size
      [] i = 11 -> IF RawRLow(decision) THEN T.raw ELSE T.effective
      [] i = 12 -> T.risk
      [] OTHER -> ""

\* every admission has the reason "ok"; every rejection comes from the first
\* gate that fails, and when that gate has a token in T the reason contains
\* it and no other token of T
TokensHold(T) ==
    Called /\ ret.raised = "" =>
        IF ret.approved THEN ret.reason = "ok"
        ELSE \E i \in 1..12 :
                /\ GateFails(i) /\ \A j \in 1..(i - 1) : ~GateFails(j)
                /\ LET token == GateToken(T, i)
                   IN  token # "" =>
                           /\ Contains(ret.reason, token)
                           /\ \A k \in DOMAIN T :
                                 T[k] # token => ~Contains(ret.reason, T[k])

\* C15: every rejection of pre_trade_checks contains the token of the gate
\* that rejected and the token of no other gate, the tokens being "hold",
\* "price unavailable", "equity unavailable", "kill-switch", "global
\* cooldown", "symbol cooldown", "limit price deviates", "below min", "raw R
\* too low", "effective R after fees" and "open risk exceed cap"; every
\* admission has the reason "ok".
C15_ReasonTokens == TokensHold(ReasonsOfCode)

\* a size under the minimum lot is rejected with the sizes in the reason
C15_Witness ==
    /\ Called /\ GateFails(10) /\ \A j \in 1..9 : ~GateFails(j)
    /\ ret.reason = "size {} below min {}"

\* C15 as stated, with the tokens "size below minimum lot", "effective R
\* after fees too low" and "open risk exceeds cap"
C15_Original == TokensHold(ReasonsOfClaim)

-----------------------------------------------------------------------------
(* The trading day *)

\* the calendar days the clock of the model reaches
TradingDays == Day(StartTs)..(Day(StartTs) + MaxDays)

\* C16: once a call of pre_trade_checks has been rejected by the kill switch
\* on a trading day, every later call on that day is rejected as well,
\* whatever the equity, the confidence and the symbol then are.
C16_KillSwitchLatch ==
    \A day \in TradingDays :
        [](RejectedWith("kill-switch") /\ Day(now) = day
            => [](Called /\ Day(now) = day => ~ret.approved))

\* C20: when the state file exists and does not parse into a RiskState,
\* __init__ completes and leaves a fresh state of today: day_open_equity is
\* the equity the accessor gives during __init__, or 100000 when it gives
\* none, realized_pnl_today and both streak counters are 0, and
\* last_trade_ts, open_positions and symbol_exposure are empty.
C20_CorruptStateFile ==
    ret.op = "__init__" /\ ret.file = Corrupt =>
        /\ state.date = Day(now)
        /\ state.day_open_equity = IF ret.equity > 0 THEN ret.equity ELSE 100000
        /\ state.realized_pnl_today = 0
        /\ state.consecutive_losses = 0 /\ state.consecutive_wins = 0
        /\ DOMAIN state.last_trade_ts = {}
        /\ DOMAIN state.open_positions = {}
        /\ DOMAIN state.symbol_exposure = {}

\* the file of a recorded fill was damaged, and the engine is built over it
\* with no accessor answering yet
C20_Witness ==
    /\ ret.op = "__init__" /\ ret.file = Corrupt /\ ret.equity = 0
    /\ nfills > 0
    /\ state = _new_state(0, Day(now)) /\ state.day_open_equity = 100000

\* __init__ has loaded a state file that parses (the first __init__ of a
\* run finds none)
Loaded == ret.op = "__init__" /\ ret.file # None /\ ret.file # Corrupt

\* C17: whenever the calendar day changes, the state is carried over to the
\* new day.  An engine that keeps running evaluates on the state of the
\* current day, and an engine built on a later day than the one of its state
\* file has day_open_equity re-baselined to the current equity (when the
\* accessor has one), realized_pnl_today = 0 and consecutive_losses = 0.
C17_DayRollover ==
    /\ Called => ret.pre.date = Day(now)
    /\ Loaded /\ Get(ret.file).date # Day(now) =>
          /\ state.date = Day(now)
          /\ CalledEquity > 0 => state.day_open_equity = CalledEquity
          /\ state.realized_pnl_today = 0
          /\ state.consecutive_losses = 0

-----------------------------------------------------------------------------
(* Two callers on one state file *)

\* C18: no update is lost, whichever of the two RiskManagers records a fill.
\* When a post_trade_update returns and the state file already held a state
\* of the same day, the file now holds that state with the fill added:
\* realized_pnl_today is the sum, the entries of last_trade_ts are kept with
\* the one of the fill added, and the loss streak counts the fill.
C18_NoLostUpdate ==
    [][ /\ ret'.op \in {"post_trade_update", "peer post_trade_update"}
        /\ ret'.raised = ""
        /\ Parses(disk) /\ Get(disk).date = Get(disk').date
        => LET old == Get(disk)
               new == Get(disk')
               pnl == ret'.realized_pnl
           IN  /\ new.realized_pnl_today = old.realized_pnl_today + pnl
               /\ DOMAIN new.last_trade_ts
                     = DOMAIN old.last_trade_ts \cup {ret'.symbol}
               /\ new.consecutive_losses
                     = IF pnl < 0 THEN old.consecutive_losses + 1
                       ELSE IF pnl > 0 THEN 0 ELSE old.consecutive_losses
      ]_vars

-----------------------------------------------------------------------------
(* The cooldowns *)

\* the verdict of the gates after the loss-streak cooldown on the inputs of
\* the call, the streak taken as reset
AfterUnlock ==
    LaterGates(cfg, [ret.pre EXCEPT !.consecutive_losses = 0], price_history, now,
               decision, CalledPx, balance, CalledEquity)

\* C21: a call that reaches the loss-streak cooldown gate with
\* consecutive_losses at the threshold and less than the required cooldown
\* elapsed since the last trade resets consecutive_losses to 0 and goes on to
\* the later gates if and only if volatility < 1% and confidence >= 0.80;
\* otherwise it is rejected with "global cooldown" and the state is as it
\* was.  A volatility of exactly 1% does not unlock; a confidence of exactly
\* 0.80 with a volatility < 1% does.
C21_EarlyUnlock ==
    ReachedCooldownGate
    /\ InGlobalCooldown(cfg, ret.pre, price_history, now, decision, CalledEquity)
    => LET vol  == Volatility(cfg, price_history, decision.symbol)
           conf == Confidence(decision)
       IN  /\ IF RLt(vol, Rat(1, 100)) /\ conf >= 80
              THEN /\ state = [ret.pre EXCEPT !.consecutive_losses = 0]
                   /\ ret.approved = AfterUnlock.approved
                   /\ ret.order = AfterUnlock.order
                   /\ ret.reason = AfterUnlock.reason
                   /\ ~Contains(ret.reason, "global cooldown")
              ELSE RejectedWith("global cooldown") /\ state = ret.pre
           /\ vol = Rat(1, 100) => RejectedWith("global cooldown")
           /\ conf = 80 /\ RLt(vol, Rat(1, 100)) => state.consecutive_losses = 0

\* a decision with confidence exactly 0.80 at the volatility floor found the
\* streak at the threshold inside the window and was admitted
C21_Witness ==
    /\ ReachedCooldownGate
    /\ InGlobalCooldown(cfg, ret.pre, price_history, now, decision, CalledEquity)
    /\ Confidence(decision) = 80
    /\ ret.pre.consecutive_losses = cfg.max_consecutive_losses
    /\ state.consecutive_losses = 0 /\ ret.approved

\* the call reached the symbol-cooldown gate: it returned and no earlier
\* gate stopped it
ReachedSymbolGate ==
    ReachedCooldownGate /\ ~Contains(ret.reason, "global cooldown")

\* C22: post_trade_update on a symbol S at time t records t as the last
\* trade of S; every call of pre_trade_checks for S that reaches the
\* symbol-cooldown gate earlier than t + symbol_cooldown_sec is rejected
\* with "symbol cooldown", and a decision on a symbol with no trade on
\* record is never rejected by this gate.
C22_SymbolCooldownAfterFill ==
    /\ ret.op = "post_trade_update" =>
          /\ ret.symbol \in DOMAIN state.last_trade_ts
          /\ state.last_trade_ts[ret.symbol] = now
    /\ ReachedSymbolGate =>
          \A S \in DOMAIN ret.pre.last_trade_ts :
              decision.symbol = S
              /\ now < ret.pre.last_trade_ts[S] + cfg.symbol_cooldown_sec
              => RejectedWith("symbol cooldown " \o S)
    /\ Called /\ decision.symbol \notin DOMAIN ret.pre.last_trade_ts =>
          ~Contains(ret.reason, "symbol cooldown")

\* a decision on the symbol of a fill of the same second, the streak below
\* the threshold, was rejected
C22_Witness ==
    /\ ReachedSymbolGate
    /\ decision.symbol \in DOMAIN ret.pre.last_trade_ts
    /\ ret.pre.last_trade_ts[decision.symbol] = now
    /\ ret.pre.consecutive_losses < cfg.max_consecutive_losses
    /\ RejectedWith("symbol cooldown")

\* the seconds since the most recent trade on any symbol, at the call
SinceLastTrade ==
    now - MaxOf({ret.pre.last_trade_ts[s] : s \in DOMAIN ret.pre.last_trade_ts})

\* the call found the streak at the threshold and the cooldown in force
\* elapsed since the most recent trade
CooldownElapsed ==
    /\ ReachedCooldownGate
    /\ ret.pre.consecutive_losses >= cfg.max_consecutive_losses
    /\ DOMAIN ret.pre.last_trade_ts # {}
    /\ SinceLastTrade >= CooldownTime(cfg, ret.pre, price_history, decision, CalledEquity)

\* after the cooldown the gate does not reject, the streak counter stays as
\* it is, and the verdict is the one of the later gates: a decision they
\* admit is admitted
ExpiredCooldownAdmits ==
    CooldownElapsed =>
        LET later == LaterGates(cfg, ret.pre, price_history, now, decision, CalledPx,
                                balance, CalledEquity)
        IN  /\ ~Contains(ret.reason, "global cooldown")
            /\ state = ret.pre
            /\ ret.approved = later.approved /\ ret.reason = later.reason
            /\ (/\ SinceLastTrade >= cfg.symbol_cooldown_sec
                /\ pre_trade_checks(cfg, [ret.pre EXCEPT !.consecutive_losses = 0],
                       price_history, now, decision, CalledRow, balance,
                       CalledEquity).approved)
               => ret.approved

\* the loss-streak cooldown gate lets the decision d through in the present
\* state, at the present time
GateOpenFor(d) ==
    ~InGlobalCooldown(cfg, state, price_history, now, d, CalledEquity)

\* C23: a call that finds consecutive_losses at the threshold and the
\* cooldown in force elapsed since the most recent trade is not rejected by
\* the loss-streak cooldown gate and, when the later gates admit it, is
\* admitted, the streak counter left as it is; and every rejection by the
\* cooldown gate is followed, as the clock advances, by a moment at which the
\* gate lets the rejected decision through, unless another fill comes first.
C23_CooldownExpiry ==
    /\ []ExpiredCooldownAdmits
    /\ \A n \in 0..MaxFills : \A d \in ExpiryDecisions :
          [](RejectedWith("global cooldown") /\ nfills = n /\ decision = d
              => <>(nfills # n \/ GateOpenFor(d)))

\* a decision was admitted with the streak still at the threshold, more
\* than the cooldown of 605 s after the last of three losing fills
C23_Witness ==
    /\ CooldownElapsed /\ ret.approved
    /\ state.consecutive_losses = cfg.max_consecutive_losses
    /\ cfg.cooldown_global_sec > 60
    /\ SinceLastTrade = TickSec

-----------------------------------------------------------------------------
(* The invalidation gate *)

\* the call got as far as the invalidation gate: none of the validation,
\* price, equity, extreme-signal and kill-switch gates rejected it
ReachedInvalidationGate ==
    PassedDataGates /\ ~Contains(ret.reason, "kill-switch")

\* the verdict of the call had the decision carried no invalidation
\* condition: the one of the cooldown gates and the gates after them
WithoutCondition ==
    pre_trade_checks(cfg, ret.pre, price_history, now,
        [decision EXCEPT !.invalidation_condition = ""], CalledRow, balance,
        CalledEquity)

\* C24: a call whose decision carries an invalidation condition and that
\* gets as far as the invalidation gate either is rejected there with an
\* "invalidation" reason, the state (consecutive_losses included) left as it
\* was, when the predicate is true on the snapshot, or goes on to the
\* cooldown gates and gets their verdict, when it is false.
C24_InvalidationGate ==
    ReachedInvalidationGate /\ decision.invalidation_condition # "" =>
        \/ RejectedWith("invalidation") /\ state = ret.pre
        \/ /\ ret.raised = ""
           /\ ret.approved = WithoutCondition.approved
           /\ ret.order = WithoutCondition.order
           /\ ret.reason = WithoutCondition.reason
           /\ state.consecutive_losses = WithoutCondition.consecutive_losses

-----------------------------------------------------------------------------
(* The extreme-signal veto *)

\* C25: on a row that carries 3m indicators, a call that passed the
\* validation, price and equity gates is rejected with a "3m" reason exactly
\* when the 3m RSI is > 90 or < 10 or the 3m ADX is > 80, for every RSI in
\* 0..100 and whatever the state; and a row without 3m indicators never
\* vetoes.
C25_ExtremeSignalVeto ==
    Called /\ Computable =>
        IF Get(CalledRow).tf3m = None THEN ~Contains(ret.reason, "3m ")
        ELSE LET rsi == Get(Get(CalledRow).tf3m).rsi14
                 adx == Get(Get(CalledRow).tf3m).adx14
             IN  IF rsi > 90 \/ rsi < 10 \/ adx > 80
                 THEN RejectedWith("3m ") /\ state = ret.pre
                 ELSE ~Contains(ret.reason, "3m ")

-----------------------------------------------------------------------------
(* Sizing *)

\* the caps of the call on the quantity, in USDT and in units of quantity:
\* the risk budget over the stop distance, and the three notional caps
RiskBudget ==
    LET raw_conf == Confidence(decision)
        conf     == IF raw_conf < 0 THEN 0 ELSE IF raw_conf > 100 THEN 100 ELSE raw_conf
    IN  calculate_dynamic_position_size(cfg, cfg.risk_per_trade_pct, conf,
            _atr_proxy_bps(cfg, price_history, decision.symbol),
            state.consecutive_losses, state.consecutive_wins, CalledEquity)
StopDistance == RMaxEps(RMul(StopPct(cfg, price_history, decision), Px(CalledPx)))
Spendable ==
    RMax(RZero, RSub(RInt(balance), RMul(cfg.balance_reserve_pct, RInt(CalledEquity))))

\* the quantity q (a rational) is within every cap of the call
WithinCaps(q) ==
    LET notional == RMul(q, Px(CalledPx))
    IN  /\ RLe(q, RDiv(RiskBudget, StopDistance))
        /\ decision.size # None /\ Get(decision.size) > 0 => RLe(q, Qty(Get(decision.size)))
        /\ RLe(notional, RMul(cfg.max_symbol_exposure_pct, RInt(CalledEquity)))
        /\ RLe(notional, RMul(cfg.max_trade_ratio, RInt(CalledEquity)))
        /\ RLe(RMul(notional, RAdd(RInt(1), Bps(cfg.fee_rate_bps))), Spendable)

\* C26: the size of every admitted order is at most risk_budget /
\* stop_distance, at most the decision's size hint when one > 0 is given,
\* its notional at most max_symbol_exposure_pct * equity and
\* max_trade_ratio * equity, and its notional with the fee at most
\* max(0, available - balance_reserve_pct * equity); it is the quantity
\* before alignment or less.
C26_SizeCaps ==
    Called /\ ret.approved =>
        /\ WithinCaps(Qty(Get(ret.order).size))
        /\ RLe(Qty(Get(ret.order).size),
               SizeBeforeAlign(cfg, state, price_history, decision, CalledPx, balance,
                               CalledEquity))

\* an order was admitted on a balance that leaves 1000 USDT to spend, at the
\* largest multiple of the lot step the balance cap allows
C26_Witness ==
    /\ Called /\ ret.approved /\ balance = 11000 /\ CalledEquity = 100000
    /\ WithinCaps(Qty(Get(ret.order).size))
    /\ ~WithinCaps(Qty(Get(ret.order).size + _get_rule(cfg, decision.symbol).lot_size_step))
    /\ decision.size = None

-----------------------------------------------------------------------------
(* The open-risk cap *)

\* the estimated risk of the open position of symbol s in the book of the
\* call: quantity * avg_price * atr_mult_stop * volatility_bps * 1e-4
PositionRisk(s) ==
    LET pos == state.open_positions[s]
    IN  RMul(RMul(RMul(Qty(Abs(pos.qty)), pos.avg_price), RInt(cfg.atr_mult_stop)),
             RMul(_atr_proxy_bps(cfg, price_history, s), Rat(1, 10000)))

\* the risk of a trade of the given size (in units of 0.0001) on the
\* decision of the call, plus the risk of the open positions of the other
\* symbols
RiskAfter(size) ==
    LET others == DOMAIN state.open_positions \ {decision.symbol}
    IN  RAdd(RMul(RMul(Qty(size), Px(CalledPx)), StopPct(cfg, price_history, decision)),
             RSum(others, [s \in others |-> PositionRisk(s)]))

\* max_open_risk_pct * equity
RiskCap == RMul(cfg.max_open_risk_pct, RInt(CalledEquity))

\* the call reached the open-risk gate
ReachedOpenRisk ==
    /\ ReachedRewardRisk
    /\ ~Contains(ret.reason, "raw R too low")
    /\ ~Contains(ret.reason, "effective R after fees")

\* C27: an order is admitted only if its own risk (size * price * stop_pct)
\* plus the estimated risk of the open positions of the other symbols is at
\* most max_open_risk_pct * equity; a call that reaches the open-risk gate
\* with a greater total is rejected there.
C27_OpenRiskCap ==
    /\ Called /\ ret.approved => RLe(RiskAfter(Get(ret.order).size), RiskCap)
    /\ ReachedOpenRisk =>
          LET size == OrderSize(cfg, state, price_history, decision, CalledPx, balance,
                                CalledEquity)
          IN  IF RLt(RiskCap, RiskAfter(size))
              THEN RejectedWith("open risk") /\ state = ret.pre
              ELSE ret.approved /\ Get(ret.order).size = size

\* an order on BTC-USDT whose own risk is within the cap was rejected over
\* the risk of the open position in ETH-USDT
C27_Witness ==
    /\ ReachedOpenRisk /\ RejectedWith("open risk")
    /\ decision.symbol = "BTC-USDT"
    /\ "ETH-USDT" \in DOMAIN state.open_positions
    /\ RLe(RMul(RMul(Qty(OrderSize(cfg, state, price_history, decision, CalledPx,
                                   balance, CalledEquity)),
                     Px(CalledPx)), StopPct(cfg, price_history, decision)),
           RiskCap)

-----------------------------------------------------------------------------
(* The price-deviation guard *)

\* the deviation of the decision's limit price, floored to the price tick of
\* its symbol, from the market price of the call, in basis points
LimitDeviationBps ==
    LET tick    == _get_rule(cfg, decision.symbol).price_tick
        aligned == (Get(decision.limit_price) \div tick) * tick
    IN  RMul(Rat(Abs(aligned - CalledPx), CalledPx), RInt(10000))

\* the call reached the price-deviation guard
ReachedDeviationGuard ==
    ReachedSymbolGate /\ ~Contains(ret.reason, "symbol cooldown")

\* C28: a limit order whose limit price, floored to the price tick, deviates
\* from the market price by more than deviation_guard_bps is never admitted,
\* and is rejected with "limit price deviates" when it reaches the guard; a
\* deviation of exactly deviation_guard_bps or less is not rejected by the
\* guard, and neither is a market order.
C28_DeviationGuard ==
    /\ Called /\ Computable /\ decision.order_type = "limit" /\ decision.limit_price # None =>
          IF RLt(RInt(cfg.deviation_guard_bps), LimitDeviationBps)
          THEN /\ ~ret.approved
               /\ ReachedDeviationGuard => RejectedWith("limit price deviates")
          ELSE ~Contains(ret.reason, "limit price deviates")
    /\ Called /\ decision.order_type # "limit" =>
          ~Contains(ret.reason, "limit price deviates")

-----------------------------------------------------------------------------
(* The position book *)

\* the function g agrees with f on every key but k: the same keys, the same
\* values
SameButFor(f, g, k) ==
    /\ DOMAIN f \ {k} = DOMAIN g \ {k}
    /\ \A s \in DOMAIN f \ {k} : g[s] = f[s]

\* C29: post_trade_update on a symbol with no open position creates the
\* entry {side, qty = filled_size, avg_price = fill_price}; on a symbol with
\* an open position it sets qty to the old quantity plus filled_size and
\* avg_price to the average of the old avg_price and the fill price weighted
\* by the two quantities, or removes the entry when that quantity is zero;
\* it sets symbol_exposure[symbol] = |filled_size * fill_price|; and it
\* leaves the positions, exposures and timestamps of every other symbol as
\* they were.
C29_PositionBook ==
    ret.op = "post_trade_update" =>
        LET S     == ret.symbol
            old   == ret.pre.open_positions
            new   == state.open_positions
            fill  == Px(ret.fill_price)
            total == old[S].qty + ret.filled_size
        IN  /\ IF S \notin DOMAIN old
               THEN /\ S \in DOMAIN new
                    /\ new[S] = [side |-> ret.side, qty |-> ret.filled_size, avg_price |-> fill]
               ELSE IF total = 0 THEN S \notin DOMAIN new
               ELSE /\ S \in DOMAIN new
                    /\ new[S].qty = total /\ new[S].side = old[S].side
                    /\ RMul(new[S].avg_price, RInt(total))
                         = RAdd(RMul(RInt(old[S].qty), old[S].avg_price),
                                RMul(RInt(ret.filled_size), fill))
            /\ S \in DOMAIN state.symbol_exposure
            /\ state.symbol_exposure[S] = RAbs(RMul(Qty(ret.filled_size), fill))
            /\ SameButFor(old, new, S)
            /\ SameButFor(ret.pre.symbol_exposure, state.symbol_exposure, S)
            /\ SameButFor(ret.pre.last_trade_ts, state.last_trade_ts, S)

\* a fill of 0.1 BTC-USDT at 51000 on a position of 0.1 at 50000, with a
\* position in ETH-USDT in the book, left 0.2 at 50500
C29_Witness ==
    /\ ret.op = "post_trade_update" /\ ret.symbol = "BTC-USDT"
    /\ ret.fill_price = 5100000
    /\ "BTC-USDT" \in DOMAIN ret.pre.open_positions
    /\ ret.pre.open_positions["BTC-USDT"].avg_price = Px(5000000)
    /\ "ETH-USDT" \in DOMAIN ret.pre.open_positions
    /\ state.open_positions["BTC-USDT"].qty = 2000
    /\ state.open_positions["BTC-USDT"].avg_price = Px(5050000)

-----------------------------------------------------------------------------
(* The state in memory and the state file *)

\* C30: whenever an operation that changed the state has completed
\* (post_trade_update, the reset of a new day when __init__ loads the state,
\* the early-unlock reset of consecutive_losses by pre_trade_checks), the
\* state file holds the state in memory, so that an engine built over the
\* file on the same day has exactly that state.
C30_PersistedAfterMutation ==
    (\/ Recorded
     \/ Called /\ ret.raised = "" /\ state # ret.pre
     \/ Loaded /\ state # Get(ret.file))
    => /\ disk = Some(state)
       /\ state.date = Day(now) => _load_state(disk, Day(now), 0) = state
-----------------------------------------------------------------------------
(* Data that is not available *)

\* the rejection of a call for want of a price or of an equity
DataUnavailable(r) ==
    /\ r.op = "pre_trade_checks" /\ r.raised = "" /\ ~r.approved /\ r.order = None
    /\ Contains(r.reason, "price unavailable") \/ Contains(r.reason, "equity unavailable")

\* the verdict of the decision on the state st, at the time t, once the
\* snapshot is m and the accessor answers e
VerdictOnceAvailable(st, t, m, e) ==
    pre_trade_checks(cfg, st, price_history, t, decision,
                     MarketRow(m, decision.symbol), balance, e)

\* C31: a call of pre_trade_checks rejected with "price unavailable" or
\* "equity unavailable" leaves the state in memory and the state file as
\* they were, so that the same decision evaluated again, at once or later,
\* with a price and an equity at hand gets the verdict it would have got
\* had the rejected call not been made.
C31_RetrySafe ==
    [][DataUnavailable(ret') =>
          /\ state' = state
          /\ disk' = disk
          /\ \A m \in DataInputs.markets, e \in DataInputs.equities, t \in {now, now + TickSec} :
                VerdictOnceAvailable(state', t, m, e) = VerdictOnceAvailable(state, t, m, e)]_vars

\* a call was rejected for want of an equity on a state that a losing fill
\* had changed and saved
C31_Witness ==
    /\ DataUnavailable(ret) /\ Contains(ret.reason, "equity unavailable")
    /\ ret.pre.consecutive_losses > 0 /\ disk = Some(state)
-----------------------------------------------------------------------------
(* The round trip through the state file *)

\* the day on which the state st was saved: post_trade_update stamps the
\* time of the fill on the state and then saves it
SavedOn(st) == Day(MaxOf({st.last_trade_ts[s] : s \in DOMAIN st.last_trade_ts}))

\* __init__ has loaded a state that post_trade_update saved on this same day
ReloadedSameDay ==
    /\ Loaded
    /\ DOMAIN Get(ret.file).last_trade_ts # {}
    /\ SavedOn(Get(ret.file)) = Day(now)

\* C32: a state saved by post_trade_update and loaded by a new RiskManager
\* on the same calendar day is the state that was saved, in every field
\* (date, day_open_equity, realized_pnl_today, both streak counters,
\* last_trade_ts, symbol_exposure, open_positions): loading resets no
\* counter and no timestamp within a day.
C32_SaveReloadRoundTrip ==
    ReloadedSameDay =>
        state = Get(ret.file)
-----------------------------------------------------------------------------
(* The price buffers *)

\* the prices pushed on the symbol s so far, in the order of the calls
PushedOn(s) == IF s \in DOMAIN Get(pushed) THEN Get(pushed)[s] ELSE <<>>

\* the buffer of the symbol s
BufferOf(s) == IF s \in DOMAIN price_history THEN price_history[s] ELSE <<>>

\* C34: after any sequence of push_price calls with the buffer length N,
\* the buffer of each symbol holds at most N prices, and they are the most
\* recent min(N, number pushed) prices pushed on that symbol, in the order
\* they were pushed; a push on one symbol leaves the buffer of another as
\* it was.
C34_BoundedBuffer ==
    \A s \in Symbols :
        LET log  == PushedOn(s)
            buf  == BufferOf(s)
            kept == IF Len(log) < MaxHist THEN Len(log) ELSE MaxHist
        IN  /\ Len(buf) <= MaxHist
            /\ Len(buf) = kept
            /\ \A i \in 1..kept : buf[i] = log[Len(log) - kept + i]

\* four prices were pushed on BTC-USDT, the first of them different from
\* the prices that are left, and one on ETH-USDT
C34_Witness ==
    /\ ret.op = "push_price"
    /\ Len(PushedOn("BTC-USDT")) = MaxPushes
    /\ Len(PushedOn("ETH-USDT")) = 1
    /\ Len(BufferOf("BTC-USDT")) = MaxHist
    /\ PushedOn("BTC-USDT")[1] # BufferOf("BTC-USDT")[1]
    /\ BufferOf("ETH-USDT") = PushedOn("ETH-USDT")
-----------------------------------------------------------------------------
(* The volatility estimate *)

\* _atr_proxy_bps has returned
Estimated == ret.op = "_atr_proxy_bps"

\* the mean of the last n absolute differences of successive prices of seq
\* (of all of them when there are fewer) over the latest price, in basis
\* points
MeanDiffBps(seq, n) ==
    LET k     == IF n < Len(seq) - 1 THEN n ELSE Len(seq) - 1
        total == Sum([j \in 1..k |-> Abs(seq[Len(seq) - k + j] - seq[Len(seq) - k + j - 1])])
    IN  RMul(Rat(total, k * seq[Len(seq)]), RInt(10000))

\* the estimate is the floored mean of the last n differences
EstimateOver(n) ==
    ret.value = RMax(RInt(cfg.atr_floor_bps), MeanDiffBps(BufferOf(ret.symbol), n))

\* C33 (as amended): _atr_proxy_bps returns a value >= atr_floor_bps:
\* exactly atr_floor_bps with fewer than 2 prices in the buffer, else
\* max(atr_floor_bps, m / latest price * 1e4), m the mean of the last
\* max(3, atr_lookback) absolute differences of successive prices (of all
\* the differences when there are fewer).
C33_VolatilityFloor ==
    Estimated =>
        /\ RLe(RInt(cfg.atr_floor_bps), ret.value)
        /\ Len(BufferOf(ret.symbol)) < 2 => ret.value = RInt(cfg.atr_floor_bps)
        /\ Len(BufferOf(ret.symbol)) >= 2 =>
              EstimateOver(IF cfg.atr_lookback < 3 THEN 3 ELSE cfg.atr_lookback)

\* with a lookback of 2 and five prices in the buffer, the estimate is
\* above the floor and is the mean of the last three differences, which is
\* neither that of the last two nor that of all four
C33_Witness ==
    /\ Estimated /\ cfg.atr_lookback = 2
    /\ Len(BufferOf(ret.symbol)) = 5
    /\ RLt(RInt(cfg.atr_floor_bps), ret.value)
    /\ EstimateOver(3) /\ ~EstimateOver(2) /\ ~EstimateOver(4)

\* C33 as stated: with 2 prices or more the estimate is the floored mean
\* absolute difference over the last atr_lookback samples, whether that
\* is read as the last atr_lookback differences or as the differences
\* among the last atr_lookback prices.
C33_Original ==
    Estimated /\ Len(BufferOf(ret.symbol)) >= 2 =>
        \/ EstimateOver(cfg.atr_lookback)
        \/ EstimateOver(cfg.atr_lookback - 1)
-----------------------------------------------------------------------------
(* The cooldown formula *)

\* 300 * (1 + 0.3 L) * (1 + 0.5 dd / 0.05) * (1 + 0.5 v / 0.02) * (2 if the
\* confidence is under 0.5, else 1), clamped to [180, 3600]
ClampedCooldown(L, dd, v, cf) ==
    LET raw == RMul(RMul(RMul(Rat(300 * (10 + 3 * L), 10),
                              RAdd(RInt(1), RMul(RInt(10), dd))),
                         RAdd(RInt(1), RMul(RInt(25), v))),
                    RInt(IF cf < 50 THEN 2 ELSE 1))
    IN  IF RLt(raw, RInt(180)) THEN RInt(180)
        ELSE IF RLt(RInt(3600), raw) THEN RInt(3600) ELSE raw

\* the cooldown of the call is not longer than the one with more losses, a
\* deeper drawdown or a higher volatility
NeverShorterAbove ==
    /\ ret.value <= adaptive_cooldown(ret.consecutive_losses + 1, ret.avg_drawdown,
                                      ret.volatility, ret.ai_confidence)
    /\ \A dd \in CooldownInputs.drawdowns :
          RLt(ret.avg_drawdown, dd) =>
             ret.value <= adaptive_cooldown(ret.consecutive_losses, dd,
                                            ret.volatility, ret.ai_confidence)
    /\ \A v \in CooldownInputs.volatilities :
          RLt(ret.volatility, v) =>
             ret.value <= adaptive_cooldown(ret.consecutive_losses, ret.avg_drawdown,
                                            v, ret.ai_confidence)

\* C35 (as amended): adaptive_cooldown returns the whole seconds of
\* clamp(300 * (1 + 0.3 * consecutive_losses) * (1 + 0.5 * drawdown / 0.05)
\* * (1 + 0.5 * volatility / 0.02) * (2 if confidence < 0.5 else 1), 180,
\* 3600), the fraction of a second cut off; the result is within
\* [180, 3600] and never decreases when consecutive_losses, the drawdown or
\* the volatility increases.
C35_CooldownDuration ==
    ret.op = "adaptive_cooldown" =>
        /\ ret.value = RFloor(ClampedCooldown(ret.consecutive_losses, ret.avg_drawdown,
                                              ret.volatility, ret.ai_confidence))
        /\ 180 <= ret.value /\ ret.value <= 3600
        /\ NeverShorterAbove

\* one loss at a volatility of 25 basis points: 300 * 1.3 * 1.0625 is
\* 414.375, and 414 is returned
C35_Witness ==
    /\ ret.op = "adaptive_cooldown"
    /\ ret.consecutive_losses = 1 /\ ret.avg_drawdown = RZero
    /\ ret.volatility = Rat(25, 10000) /\ ret.ai_confidence = 100
    /\ ret.value = 414

\* C35 as stated: the value returned is the clamped product itself
C35_Original ==
    ret.op = "adaptive_cooldown" =>
        RInt(ret.value) = ClampedCooldown(ret.consecutive_losses, ret.avg_drawdown,
                                          ret.volatility, ret.ai_confidence)
-----------------------------------------------------------------------------
(* The risk budget *)

\* calculate_dynamic_position_size has returned
Budgeted == ret.op = "calculate_dynamic_position_size"

\* 1.2 below volatility_low_bps, 0.6 above volatility_high_bps, on the
\* straight line between the two in between
VolatilityScale(v) ==
    LET low  == cfg.volatility_low_bps
        high == cfg.volatility_high_bps
    IN  IF RLt(v, RInt(low)) THEN Rat(12, 10)
        ELSE IF RLt(RInt(high), v) THEN Rat(6, 10)
        ELSE RDiv(RAdd(RMul(Rat(12, 10), RSub(RInt(high), v)),
                       RMul(Rat(6, 10), RSub(v, RInt(low)))),
                  RInt(high - low))

StreakScale(losses, wins) ==
    IF losses >= 2 THEN Rat(1, 2) ELSE IF wins >= 3 THEN Rat(13, 10) ELSE RInt(1)

\* base_risk_pct * (0.5 + confidence) * volatility_scale * streak_scale
AdjustedPct ==
    RMul(RMul(RMul(ret.base_risk_pct, Rat(50 + ret.ai_confidence, 100)),
              VolatilityScale(ret.volatility_bps)),
         StreakScale(ret.consecutive_losses, ret.consecutive_wins))

\* C36: calculate_dynamic_position_size returns adjusted_pct * equity with
\* adjusted_pct = clamp(base_risk_pct * (0.5 + confidence) * volatility_scale
\* * streak_scale, risk_min_pct, risk_max_pct), volatility_scale 1.2 below
\* volatility_low_bps, 0.6 above volatility_high_bps and linear in between,
\* streak_scale 0.5 if consecutive_losses >= 2, else 1.3 if
\* consecutive_wins >= 3, else 1.0; so the budget lies in
\* [risk_min_pct * equity, risk_max_pct * equity].
C36_RiskBudget ==
    Budgeted =>
        LET pct == IF RLt(AdjustedPct, cfg.risk_min_pct) THEN cfg.risk_min_pct
                   ELSE IF RLt(cfg.risk_max_pct, AdjustedPct) THEN cfg.risk_max_pct
                   ELSE AdjustedPct
        IN  /\ ret.value = RMul(pct, RInt(ret.equity))
            /\ RLe(RMul(cfg.risk_min_pct, RInt(ret.equity)), ret.value)
            /\ RLe(ret.value, RMul(cfg.risk_max_pct, RInt(ret.equity)))

\* the base risk of 0.5% at confidence 0.7, a volatility half-way between
\* the thresholds and three wins: 0.005 * 1.2 * 0.9 * 1.3 of 100000 is 702,
\* inside the clamp
C36_Witness ==
    /\ Budgeted
    /\ ret.base_risk_pct = Rat(5, 1000) /\ ret.ai_confidence = 70
    /\ ret.volatility_bps = RInt(65)
    /\ ret.consecutive_losses = 0 /\ ret.consecutive_wins = 3
    /\ ret.equity = 100000
    /\ ret.value = RInt(702)
-----------------------------------------------------------------------------
(* The verdict *)

\* pre_trade_checks has returned a verdict
Returned == Called /\ ret.raised = ""

\* C37: in every verdict pre_trade_checks returns, approved is true exactly
\* when the order is not None and exactly when the reason is "ok"; the
\* order of an admission has the symbol and the side of the decision, a
\* side that is buy or sell, and a size > 0; every rejection has the order
\* None.
C37_VerdictShape ==
    Returned =>
        /\ ret.approved <=> ret.order # None
        /\ ret.approved <=> ret.reason = "ok"
        /\ ret.approved =>
              /\ Get(ret.order).symbol = decision.symbol
              /\ Get(ret.order).side = decision.side
              /\ Get(ret.order).side \in {"buy", "sell"}
              /\ Get(ret.order).size > 0
        /\ ~ret.approved => ret.order = None

\* a decision to sell was admitted with an order to sell
C37_Witness ==
    /\ Returned /\ ret.approved /\ ret.reason = "ok"
    /\ decision.side = "sell"
    /\ Get(ret.order).side = "sell" /\ Get(ret.order).symbol = "BTC-USDT"
    /\ Get(ret.order).size > 0
-----------------------------------------------------------------------------
(* The limit price of an order *)

\* C38: an admitted order carries a limit_price exactly when its order_type
\* is limit; the limit_price of an admitted limit order is positive, a
\* multiple of the price tick of its symbol and within deviation_guard_bps
\* of the market price; an admitted market order has the limit_price None.
C38_LimitPriceOnOrders ==
    Returned /\ ret.approved =>
        LET order == Get(ret.order)
            tick  == _get_rule(cfg, order.symbol).price_tick
            price == Get(order.limit_price)
        IN  /\ order.limit_price # None <=> order.order_type = "limit"
            /\ order.order_type = "limit" =>
                  /\ price > 0
                  /\ price % tick = 0
                  /\ Abs(price - CalledPx) * 10000 <= cfg.deviation_guard_bps * CalledPx
            /\ order.order_type = "market" => order.limit_price = None
-----------------------------------------------------------------------------
(* The exposure to one symbol *)

\* the notional of the open position in the symbol s at the market price
HeldNotional(s) ==
    RMul(Qty(Abs(state.open_positions[s].qty)), Px(RowPrice(MarketRow(market, s))))

\* C39: when every admitted order is recorded as filled in full, at a
\* constant price and equity, the notional held in one symbol (the quantity
\* in open_positions times the price) never exceeds
\* max_symbol_exposure_pct * equity: the cap bounds the accumulated
\* position, not only each order.
C39_AccumulatedExposure ==
    \A s \in DOMAIN state.open_positions :
        RLe(HeldNotional(s), RMul(cfg.max_symbol_exposure_pct, RInt(account_equity)))
-----------------------------------------------------------------------------
(* Fills that close a position *)

\* post_trade_update has recorded a fill on the side opposite to the side
\* of the position it found
ClosingFill ==
    /\ ret.op = "post_trade_update"
    /\ ret.symbol \in DOMAIN ret.pre.open_positions
    /\ ret.pre.open_positions[ret.symbol].side # ret.side

\* the open risk estimated for a decision on another symbol than s counts
\* no position in s
NotCounted(s) ==
    decision.symbol # s /\ CalledPx > 0 =>
        \A size \in {0, 10000} :
            _estimate_open_risk_after(cfg, state, price_history, decision.symbol, size,
                                      CalledPx, StopPct(cfg, price_history, decision))
              = _estimate_open_risk_after(cfg, [state EXCEPT !.open_positions = Del(@, s)],
                                          price_history, decision.symbol, size,
                                          CalledPx, StopPct(cfg, price_history, decision))

\* C40: a fill on the side opposite to the open position reduces the
\* quantity of the position; a buy of q followed by a sell of q on a symbol
\* that had no position leaves the symbol out of open_positions, and the
\* open-risk estimate of the calls that follow does not count it.
C40_ClosingFills ==
    ClosingFill =>
        LET S   == ret.symbol
            old == ret.pre.open_positions[S]
        IN  /\ S \in DOMAIN state.open_positions =>
                  Abs(state.open_positions[S].qty) < Abs(old.qty)
            /\ old.side = "buy" /\ ret.side = "sell" /\ ret.filled_size = old.qty =>
                  /\ S \notin DOMAIN state.open_positions
                  /\ NotCounted(S)
====
